---------------------------- MODULE Spec2Model ----------------------------
(***************************************************************************)
(* Persistence and synchronisation layer of the family budget             *)
(* application: the envelope codec (src/src/lib/crypto.ts) and the local  *)
(* / remote store adapters with their orchestrator                        *)
(* (src/src/lib/storage.ts).                                              *)
(*                                                                         *)
(* JavaScript values are tagged records, strings are sequences of one-    *)
(* character strings over printable ASCII, byte arrays are sequences of   *)
(* integers in 0..255.  The platform functions the code calls             *)
(* (JSON.stringify, JSON.parse, TextEncoder, TextDecoder, btoa, atob,     *)
(* crypto.subtle) are modelled by what they compute on these values.      *)
(***************************************************************************)
EXTENDS Integers, Sequences, FiniteSets, TLC

(***************************************************************************)
(* JavaScript values                                                       *)
(***************************************************************************)
JNull == [t |-> "null"]
JUndefined == [t |-> "undefined"]
JNaN == [t |-> "NaN"]
JBool(b) == [t |-> "boolean", b |-> b]
JNum(n) == [t |-> "number", n |-> n]
JStr(s) == [t |-> "string", s |-> s]
JArr(xs) == [t |-> "array", xs |-> xs]
JObj(ms) == [t |-> "object", ms |-> ms]
Member(k, v) == [k |-> k, v |-> v]

\* ToBoolean, as applied by `if (x)`, `!x`, `a && b`.
Truthy(v) ==
  CASE v.t = "null" -> FALSE
    [] v.t = "undefined" -> FALSE
    [] v.t = "NaN" -> FALSE
    [] v.t = "boolean" -> v.b
    [] v.t = "number" -> v.n # 0
    [] v.t = "string" -> v.s # <<>>
    [] OTHER -> TRUE

\* obj.key: undefined unless obj is an object that has the key.
GetProp(obj, key) ==
  IF obj.t = "object" /\ \E i \in 1..Len(obj.ms) : obj.ms[i].k = key
  THEN obj.ms[CHOOSE i \in 1..Len(obj.ms) : obj.ms[i].k = key].v
  ELSE JUndefined

(***************************************************************************)
(* Characters and their codes                                              *)
(***************************************************************************)
\* Printable ASCII in code order, U+0020 .. U+007E (the grave accent, which a
\* TLA+ string cannot hold, is written U+0060).
Ascii ==
  <<
    " ", "!", "\"", "#", "$", "%", "&", "'", "(", ")", "*", "+", ",", "-", ".", "/",
    "0", "1", "2", "3", "4", "5", "6", "7", "8", "9", ":", ";", "<", "=", ">", "?",
    "@", "A", "B", "C", "D", "E", "F", "G", "H", "I", "J", "K", "L", "M", "N", "O",
    "P", "Q", "R", "S", "T", "U", "V", "W", "X", "Y", "Z", "[", "\\", "]", "^", "_",
    "U+0060", "a", "b", "c", "d", "e", "f", "g", "h", "i", "j", "k", "l", "m", "n", "o",
    "p", "q", "r", "s", "t", "u", "v", "w", "x", "y", "z", "{", "|", "}", "~"
  >>
AsciiChars == {Ascii[i] : i \in 1..Len(Ascii)}
\* The character a byte outside printable ASCII decodes to (U+FFFD and the
\* control characters): it belongs to no JSON token and to no base64 text.
Replacement == "U+FFFD"
CharCode == [c \in AsciiChars |-> 31 + (CHOOSE i \in 1..Len(Ascii) : Ascii[i] = c)]
DigitChars == <<"0", "1", "2", "3", "4", "5", "6", "7", "8", "9">>
IsDigit(c) == \E i \in 1..10 : DigitChars[i] = c
DigitValue(c) == (CHOOSE i \in 1..10 : DigitChars[i] = c) - 1

RECURSIVE FlatMap(_, _)
\* The concatenation of Op(s[1]), Op(s[2]), ..., by halves.
FlatMap(Op(_), s) ==
  IF Len(s) = 0 THEN <<>>
  ELSE IF Len(s) = 1 THEN Op(s[1])
  ELSE LET m == Len(s) \div 2
       IN FlatMap(Op, SubSeq(s, 1, m)) \o FlatMap(Op, SubSeq(s, m + 1, Len(s)))

\* new TextEncoder().encode(str): UTF-8.
Utf8Char(c) == IF c \in AsciiChars THEN <<CharCode[c]>> ELSE <<239, 191, 189>>
TextEncode(str) == FlatMap(Utf8Char, str)
\* new TextDecoder().decode(bytes): UTF-8, not fatal.
Utf8Byte(b) == IF b >= 32 /\ b <= 126 THEN <<Ascii[b - 31]>> ELSE <<Replacement>>
TextDecode(bytes) == FlatMap(Utf8Byte, bytes)

(***************************************************************************)
(* JSON.stringify                                                          *)
(***************************************************************************)
RECURSIVE Digits(_)
Digits(n) ==
  IF n < 10 THEN <<DigitChars[n + 1]>>
  ELSE Digits(n \div 10) \o <<DigitChars[(n % 10) + 1]>>
NumberToString(n) == IF n < 0 THEN <<"-">> \o Digits(0 - n) ELSE Digits(n)

EscapeChar(c) ==
  IF c = "\"" THEN <<"\\", "\"">>
  ELSE IF c = "\\" THEN <<"\\", "\\">>
  ELSE <<c>>
QuoteJSONString(s) == <<"\"">> \o FlatMap(EscapeChar, s) \o <<"\"">>

LitNull == <<"n", "u", "l", "l">>
LitTrue == <<"t", "r", "u", "e">>
LitFalse == <<"f", "a", "l", "s", "e">>
LitUndefined == <<"u", "n", "d", "e", "f", "i", "n", "e", "d">>

RECURSIVE SerializeJSONProperty(_), SerializeJSONArray(_, _), SerializeJSONObject(_, _)
\* [def |-> whether a text is produced, s |-> the text]
SerializeJSONProperty(v) ==
  CASE v.t = "undefined" -> [def |-> FALSE, s |-> <<>>]
    [] v.t = "null" -> [def |-> TRUE, s |-> LitNull]
    [] v.t = "NaN" -> [def |-> TRUE, s |-> LitNull]
    [] v.t = "boolean" -> [def |-> TRUE, s |-> IF v.b THEN LitTrue ELSE LitFalse]
    [] v.t = "number" -> [def |-> TRUE, s |-> NumberToString(v.n)]
    [] v.t = "string" -> [def |-> TRUE, s |-> QuoteJSONString(v.s)]
    [] v.t = "array" -> [def |-> TRUE, s |-> <<"[">> \o SerializeJSONArray(v.xs, TRUE) \o <<"]">>]
    [] v.t = "object" -> [def |-> TRUE, s |-> <<"{">> \o SerializeJSONObject(v.ms, TRUE) \o <<"}">>]
\* An element that has no JSON text is written as null.
SerializeJSONArray(xs, first) ==
  IF xs = <<>> THEN <<>>
  ELSE LET r == SerializeJSONProperty(Head(xs))
       IN (IF first THEN <<>> ELSE <<",">>)
          \o (IF r.def THEN r.s ELSE LitNull)
          \o SerializeJSONArray(Tail(xs), FALSE)
\* A member whose value has no JSON text is left out.
SerializeJSONObject(ms, first) ==
  IF ms = <<>> THEN <<>>
  ELSE LET r == SerializeJSONProperty(Head(ms).v)
       IN IF r.def
          THEN (IF first THEN <<>> ELSE <<",">>)
               \o QuoteJSONString(Head(ms).k) \o <<":">> \o r.s
               \o SerializeJSONObject(Tail(ms), FALSE)
          ELSE SerializeJSONObject(Tail(ms), first)

\* JSON.stringify(v): a string value, or undefined.
JSONStringify(v) ==
  LET r == SerializeJSONProperty(v)
  IN IF r.def THEN JStr(r.s) ELSE JUndefined

RECURSIVE JSToString(_), JoinToString(_, _)
\* ToString(v), as applied to a non-string argument of a function that
\* expects a string (JSON.parse, atob, setItem).
JSToString(v) ==
  CASE v.t = "string" -> v.s
    [] v.t = "undefined" -> LitUndefined
    [] v.t = "null" -> LitNull
    [] v.t = "NaN" -> <<"N", "a", "N">>
    [] v.t = "boolean" -> IF v.b THEN LitTrue ELSE LitFalse
    [] v.t = "number" -> NumberToString(v.n)
    [] v.t = "array" -> JoinToString(v.xs, TRUE)
    [] v.t = "object" ->
         <<"[", "o", "b", "j", "e", "c", "t", " ", "O", "b", "j", "e", "c", "t", "]">>
JoinToString(xs, first) ==
  IF xs = <<>> THEN <<>>
  ELSE (IF first THEN <<>> ELSE <<",">>)
       \o (IF Head(xs).t \in {"null", "undefined"} THEN <<>> ELSE JSToString(Head(xs)))
       \o JoinToString(Tail(xs), FALSE)

(***************************************************************************)
(* JSON.parse: a recursive-descent parser of the JSON grammar over the     *)
(* texts above (integers, strings with the two escapes, literals, arrays,  *)
(* objects; no insignificant white space).  A parse result is              *)
(* [ok, v, rest]: whether a value was read, the value, the unread text.    *)
(***************************************************************************)
ParseFail == [ok |-> FALSE, v |-> JUndefined, rest |-> <<>>]
ParseOk(v, rest) == [ok |-> TRUE, v |-> v, rest |-> rest]
StartsWith(s, lit) == Len(s) >= Len(lit) /\ SubSeq(s, 1, Len(lit)) = lit
Drop(s, n) == SubSeq(s, n + 1, Len(s))

Min(S) == CHOOSE x \in S : \A y \in S : x <= y
RECURSIVE ParseStringBody(_, _)
\* s follows the opening quote; acc is the string read so far.  Reads up
\* to the next quote or backslash at once.
ParseStringBody(s, acc) ==
  LET special == {i \in 1..Len(s) : s[i] \in {"\"", "\\"}}
  IN IF special = {} THEN ParseFail
     ELSE LET i == Min(special)
              run == SubSeq(s, 1, i - 1)
          IN IF \E j \in 1..(i - 1) : s[j] \notin AsciiChars THEN ParseFail
             ELSE IF s[i] = "\"" THEN ParseOk(JStr(acc \o run), Drop(s, i))
             ELSE IF Len(s) > i /\ s[i + 1] \in {"\"", "\\"}
                  THEN ParseStringBody(Drop(s, i + 1), acc \o run \o <<s[i + 1]>>)
                  ELSE ParseFail

RECURSIVE ParseDigits(_, _)
\* The digits at the head of s, accumulated into n.
ParseDigits(s, n) ==
  IF s # <<>> /\ IsDigit(Head(s))
  THEN ParseDigits(Tail(s), 10 * n + DigitValue(Head(s)))
  ELSE [n |-> n, rest |-> s]
\* A JSON integer: no leading zero, no fraction or exponent part.
ParseUnsigned(s) ==
  IF s = <<>> \/ ~IsDigit(Head(s)) THEN ParseFail
  ELSE IF Head(s) = "0"
       THEN IF Len(s) >= 2 /\ (IsDigit(s[2]) \/ s[2] \in {".", "e", "E"})
            THEN ParseFail
            ELSE ParseOk(JNum(0), Tail(s))
  ELSE LET r == ParseDigits(s, 0)
       IN IF r.rest # <<>> /\ Head(r.rest) \in {".", "e", "E"}
          THEN ParseFail
          ELSE ParseOk(JNum(r.n), r.rest)
ParseNumber(s) ==
  IF Head(s) = "-"
  THEN LET r == ParseUnsigned(Tail(s))
       IN IF r.ok THEN ParseOk(JNum(0 - r.v.n), r.rest) ELSE ParseFail
  ELSE ParseUnsigned(s)

RECURSIVE ParseValue(_), ParseElements(_, _), ParseMembers(_, _)
ParseValue(s) ==
  IF s = <<>> THEN ParseFail
  ELSE CASE StartsWith(s, LitNull) -> ParseOk(JNull, Drop(s, 4))
         [] StartsWith(s, LitTrue) -> ParseOk(JBool(TRUE), Drop(s, 4))
         [] StartsWith(s, LitFalse) -> ParseOk(JBool(FALSE), Drop(s, 5))
         [] Head(s) = "\"" -> ParseStringBody(Tail(s), <<>>)
         [] Head(s) = "-" \/ IsDigit(Head(s)) -> ParseNumber(s)
         [] Head(s) = "[" ->
              IF Len(s) >= 2 /\ s[2] = "]" THEN ParseOk(JArr(<<>>), Drop(s, 2))
              ELSE ParseElements(Tail(s), <<>>)
         [] Head(s) = "{" ->
              IF Len(s) >= 2 /\ s[2] = "}" THEN ParseOk(JObj(<<>>), Drop(s, 2))
              ELSE ParseMembers(Tail(s), <<>>)
         [] OTHER -> ParseFail
\* s is at an element; acc holds the elements read so far.
ParseElements(s, acc) ==
  LET r == ParseValue(s)
  IN IF ~r.ok \/ r.rest = <<>> THEN ParseFail
     ELSE IF Head(r.rest) = "," THEN ParseElements(Tail(r.rest), Append(acc, r.v))
     ELSE IF Head(r.rest) = "]" THEN ParseOk(JArr(Append(acc, r.v)), Tail(r.rest))
     ELSE ParseFail
\* s is at a member's key; acc holds the members read so far.
ParseMembers(s, acc) ==
  IF s = <<>> \/ Head(s) # "\"" THEN ParseFail
  ELSE LET k == ParseStringBody(Tail(s), <<>>)
       IN IF ~k.ok \/ k.rest = <<>> \/ Head(k.rest) # ":" THEN ParseFail
          ELSE LET r == ParseValue(Tail(k.rest))
                   ms == Append(acc, Member(k.v.s, r.v))
               IN IF ~r.ok \/ r.rest = <<>> THEN ParseFail
                  ELSE IF Head(r.rest) = "," THEN ParseMembers(Tail(r.rest), ms)
                  ELSE IF Head(r.rest) = "}" THEN ParseOk(JObj(ms), Tail(r.rest))
                  ELSE ParseFail

\* JSON.parse(x): [ok |-> FALSE] stands for the SyntaxError it throws.
JSONParse(x) ==
  LET r == ParseValue(JSToString(x))
  IN IF r.ok /\ r.rest = <<>> THEN [ok |-> TRUE, v |-> r.v]
     ELSE [ok |-> FALSE, v |-> JUndefined]

(***************************************************************************)
(* Base64: btoa and atob on byte strings                                   *)
(***************************************************************************)
B64Alphabet ==
  <<
    "A", "B", "C", "D", "E", "F", "G", "H", "I", "J", "K", "L", "M", "N", "O", "P",
    "Q", "R", "S", "T", "U", "V", "W", "X", "Y", "Z", "a", "b", "c", "d", "e", "f",
    "g", "h", "i", "j", "k", "l", "m", "n", "o", "p", "q", "r", "s", "t", "u", "v",
    "w", "x", "y", "z", "0", "1", "2", "3", "4", "5", "6", "7", "8", "9", "+", "/"
  >>
B64Chars == {B64Alphabet[i] : i \in 1..64}
B64Value == [c \in B64Chars |-> (CHOOSE i \in 1..64 : B64Alphabet[i] = c) - 1]
B64Char(n) == B64Alphabet[n + 1]

\* btoa(bin), bin given by its character codes (all below 256): every three
\* bytes give four characters, a last group of one or two bytes is padded.
Btoa(b) ==
  LET n == Len(b)
      Byte(i) == IF i <= n THEN b[i] ELSE 0
      Out(k) ==
        LET g == 3 * ((k - 1) \div 4)
            pos == (k - 1) % 4
        IN CASE pos = 0 -> B64Char(Byte(g + 1) \div 4)
             [] pos = 1 -> B64Char((Byte(g + 1) % 4) * 16 + Byte(g + 2) \div 16)
             [] pos = 2 -> IF g + 2 > n THEN "="
                           ELSE B64Char((Byte(g + 2) % 16) * 4 + Byte(g + 3) \div 64)
             [] pos = 3 -> IF g + 3 > n THEN "=" ELSE B64Char(Byte(g + 3) % 64)
  IN [k \in 1..(4 * ((n + 2) \div 3)) |-> Out(k)]

\* The bytes of a padding-free base64 text whose length is not 1 modulo 4:
\* every four characters give three bytes, the bits left over are dropped.
AtobGroups(s) ==
  LET Val(i) == IF i <= Len(s) THEN B64Value[s[i]] ELSE 0
      Out(j) ==
        LET g == 4 * ((j - 1) \div 3)
            pos == (j - 1) % 3
        IN CASE pos = 0 -> Val(g + 1) * 4 + Val(g + 2) \div 16
             [] pos = 1 -> (Val(g + 2) % 16) * 16 + Val(g + 3) \div 4
             [] pos = 2 -> (Val(g + 3) % 4) * 64 + Val(g + 4)
  IN [j \in 1..((Len(s) * 3) \div 4) |-> Out(j)]
StripSpaces(s) == SelectSeq(s, LAMBDA c : c # " ")
\* atob(x), the forgiving base64 decode: [ok |-> FALSE] stands for the
\* InvalidCharacterError it throws.
Atob(x) ==
  LET s0 == StripSpaces(JSToString(x))
      n0 == Len(s0)
      s1 == IF n0 % 4 = 0 /\ n0 > 0 /\ s0[n0] = "="
            THEN IF s0[n0 - 1] = "=" THEN SubSeq(s0, 1, n0 - 2) ELSE SubSeq(s0, 1, n0 - 1)
            ELSE s0
  IN IF Len(s1) % 4 = 1 \/ \E i \in 1..Len(s1) : s1[i] \notin B64Chars
     THEN [ok |-> FALSE, bytes |-> <<>>]
     ELSE [ok |-> TRUE, bytes |-> AtobGroups(s1)]

\* crypto.ts: String.fromCharCode of each byte, then btoa.
b64Encode(bytes) == JStr(Btoa(bytes))
\* crypto.ts: atob, then charCodeAt of each character.
b64DecodeToBytes(b64) == Atob(b64)

(***************************************************************************)
(* crypto.subtle.  PBKDF2 and AES-GCM are stood in for by a keyed stream   *)
(* cipher with an authentication tag over key, iv and ciphertext, built    *)
(* on a polynomial hash: deterministic, invertible under the same key and  *)
(* iv, and rejecting a ciphertext whose tag does not match.                *)
(***************************************************************************)
SALT_LEN == 16
IV_LEN == 12
ITERATIONS == 100000
KEY_LENGTH == 256
TAG_LEN == 16

RECURSIVE Pow31(_)
Pow31(n) ==
  IF n = 0 THEN 1
  ELSE LET q == Pow31(n \div 2)
       IN IF n % 2 = 0 THEN (q * q) % 32749 ELSE (((q * q) % 32749) * 31) % 32749
RECURSIVE Poly(_)
\* The sum of (bytes[i] + 1) * 31^(n - i) modulo 32749, by halves.
Poly(bytes) ==
  IF Len(bytes) = 0 THEN 0
  ELSE IF Len(bytes) = 1 THEN bytes[1] + 1
  ELSE LET m == Len(bytes) \div 2
           hi == SubSeq(bytes, 1, m)
           lo == SubSeq(bytes, m + 1, Len(bytes))
       IN (Poly(hi) * Pow31(Len(lo)) + Poly(lo)) % 32749
\* The hash h extended by bytes: h' = 31 * h + byte + 1 for each byte in turn.
Mix(h, bytes) == (h * Pow31(Len(bytes)) + Poly(bytes)) % 32749

\* importKey("raw", encode(passphrase), "PBKDF2") and deriveKey with
\* { salt, iterations: 100_000, hash: "SHA-256" } to an AES-GCM key.
deriveKey(passphrase, saltBytes) ==
  [name |-> "AES-GCM", length |-> KEY_LENGTH,
   k |-> Mix(Mix(ITERATIONS % 32749, TextEncode(passphrase)), saltBytes)]

KeyStream(kiv, i) == Mix(kiv, <<i % 256>>) % 256
AuthTag(kiv, ct) ==
  LET h == Mix(kiv, ct)
  IN [j \in 1..TAG_LEN |->
        IF j = 1 THEN h % 256
        ELSE IF j = 2 THEN h \div 256
        ELSE Mix(h, <<j>>) % 256]
\* crypto.subtle.encrypt({ name: "AES-GCM", iv }, key, plaintext)
SubtleEncrypt(key, iv, plaintext) ==
  LET kiv == Mix(key.k, iv)
      ct == [i \in 1..Len(plaintext) |-> (plaintext[i] + KeyStream(kiv, i)) % 256]
  IN ct \o AuthTag(kiv, ct)
\* crypto.subtle.decrypt({ name: "AES-GCM", iv }, key, data): [ok |-> FALSE]
\* stands for the OperationError it rejects with.
SubtleDecrypt(key, iv, data) ==
  IF Len(data) < TAG_LEN \/ Len(iv) = 0 THEN [ok |-> FALSE, bytes |-> <<>>]
  ELSE LET n == Len(data) - TAG_LEN
           kiv == Mix(key.k, iv)
           ct == SubSeq(data, 1, n)
           tag == SubSeq(data, n + 1, Len(data))
       IN IF tag # AuthTag(kiv, ct) THEN [ok |-> FALSE, bytes |-> <<>>]
          ELSE [ok |-> TRUE,
                bytes |-> [i \in 1..n |-> (ct[i] + 256 - KeyStream(kiv, i)) % 256]]

(***************************************************************************)
(* Envelope codec: encryptJSON and decryptJSON                             *)
(***************************************************************************)
K_v == <<"v">>
K_salt == <<"s", "a", "l", "t">>
K_iv == <<"i", "v">>
K_cipher == <<"c", "i", "p", "h", "e", "r">>

\* encryptJSON writing the salt where the iv belongs.
encryptJSONSaltAsIv(passphrase, obj, salt, iv) ==
  LET key == deriveKey(passphrase, salt)
      json == JSONStringify(obj)
      plaintext == TextEncode(IF json.t = "string" THEN json.s ELSE <<>>)
      cipherBuf == SubtleEncrypt(key, iv, plaintext)
  IN JSONStringify(JObj(<<Member(K_v, JNum(1)),
                          Member(K_salt, b64Encode(salt)),
                          Member(K_iv, b64Encode(salt)),
                          Member(K_cipher, b64Encode(cipherBuf))>>))

\* encryptJSON(passphrase, obj), salt and iv being the two results of
\* crypto.getRandomValues: the JSON text of { v: 1, salt, iv, cipher }.
encryptJSON(passphrase, obj, salt, iv) ==
  LET key == deriveKey(passphrase, salt)
      json == JSONStringify(obj)
      \* TextEncoder.encode(undefined) encodes the empty string.
      plaintext == TextEncode(IF json.t = "string" THEN json.s ELSE <<>>)
      cipherBuf == SubtleEncrypt(key, iv, plaintext)
  IN JSONStringify(JObj(<<Member(K_v, JNum(1)),
                          Member(K_salt, b64Encode(salt)),
                          Member(K_iv, b64Encode(iv)),
                          Member(K_cipher, b64Encode(cipherBuf))>>))

\* What decryptJSON throws, and whether deriveKey had been called by then.
Thrown(err, derived) == [ok |-> FALSE, error |-> err, value |-> JUndefined, derived |-> derived]

\* decryptJSON from line 68 on, given the outcome of crypto.subtle.decrypt.
DecryptedText(plain) ==
  IF ~plain.ok THEN Thrown("OperationError", TRUE)
  ELSE LET doc == JSONParse(JStr(TextDecode(plain.bytes)))
       IN IF ~doc.ok THEN Thrown("SyntaxError", TRUE)
          ELSE [ok |-> TRUE, error |-> "", value |-> doc.v, derived |-> TRUE]
\* decryptJSON from line 64 on, given what b64DecodeToBytes made of the
\* three fields.
DecryptFields(passphrase, salt, iv, cipher) ==
  IF ~salt.ok \/ ~iv.ok \/ ~cipher.ok THEN Thrown("InvalidCharacterError", FALSE)
  ELSE DecryptedText(SubtleDecrypt(deriveKey(passphrase, salt.bytes), iv.bytes, cipher.bytes))
\* decryptJSON without the test of parsed.v.
decryptJSONAnyVersion(passphrase, payload) ==
  LET parsed == JSONParse(payload)
  IN IF ~parsed.ok THEN Thrown("SyntaxError", FALSE)
     ELSE IF ~Truthy(parsed.v) THEN Thrown("Unsupported payload", FALSE)
     ELSE DecryptFields(passphrase,
                        b64DecodeToBytes(GetProp(parsed.v, K_salt)),
                        b64DecodeToBytes(GetProp(parsed.v, K_iv)),
                        b64DecodeToBytes(GetProp(parsed.v, K_cipher)))

\* decryptJSON from line 58 on, given the outcome of JSON.parse(payload).
DecryptParsed(passphrase, parsed) ==
  IF ~parsed.ok THEN Thrown("SyntaxError", FALSE)
  ELSE IF ~Truthy(parsed.v) \/ GetProp(parsed.v, K_v) # JNum(1)
       THEN Thrown("Unsupported payload", FALSE)
  ELSE DecryptFields(passphrase,
                     b64DecodeToBytes(GetProp(parsed.v, K_salt)),
                     b64DecodeToBytes(GetProp(parsed.v, K_iv)),
                     b64DecodeToBytes(GetProp(parsed.v, K_cipher)))
\* decryptJSON(passphrase, payload): [ok |-> TRUE, value] when it returns,
\* [ok |-> FALSE, error] when it throws; derived tells whether deriveKey
\* had been called by then.
decryptJSON(passphrase, payload) == DecryptParsed(passphrase, JSONParse(payload))

(***************************************************************************)
(* Ledger documents (App.tsx: AppState) and the other inputs               *)
(***************************************************************************)
K_id == <<"i", "d">>
K_name == <<"n", "a", "m", "e">>
K_allocations == <<"a", "l", "l", "o", "c", "a", "t", "i", "o", "n", "s">>
K_isIncome == <<"i", "s", "I", "n", "c", "o", "m", "e">>
K_buckets == <<"b", "u", "c", "k", "e", "t", "s">>
K_txns == <<"t", "x", "n", "s">>
K_version == <<"v", "e", "r", "s", "i", "o", "n">>
K_date == <<"d", "a", "t", "e">>
K_description == <<"d", "e", "s", "c", "r", "i", "p", "t", "i", "o", "n">>
K_amount == <<"a", "m", "o", "u", "n", "t">>
K_bucketId == <<"b", "u", "c", "k", "e", "t", "I", "d">>
K_deleted == <<"d", "e", "l", "e", "t", "e", "d">>
Month1 == <<"2", "0", "2", "4", "-", "0", "1">>
CURRENT_VERSION == 1

IncomeBucket ==
  JObj(<<Member(K_id, JStr(<<"i", "n", "c", "o", "m", "e">>)),
         Member(K_name, JStr(<<"I", "n", "c", "o", "m", "e">>)),
         Member(K_allocations, JObj(<<Member(Month1, JNum(0))>>)),
         Member(K_isIncome, JBool(TRUE))>>)
GroceriesBucket ==
  JObj(<<Member(K_id, JStr(<<"b", "1">>)),
         Member(K_name, JStr(<<"G", "r", "o", "c", "e", "r", "i", "e", "s">>)),
         Member(K_allocations, JObj(<<Member(Month1, JNum(600))>>))>>)
Txn1 ==
  JObj(<<Member(K_id, JStr(<<"t", "1">>)),
         Member(K_date, JStr(Month1 \o <<"-", "1", "5">>)),
         Member(K_description, JStr(<<"H", "-", "E", "-", "B", " ", "\"", "#", "4", "2", "\"">>)),
         Member(K_amount, JNum(0 - 42)),
         Member(K_bucketId, JNull),
         Member(K_deleted, JBool(FALSE))>>)
\* seedState(): the income bucket alone.
SeedLedger ==
  JObj(<<Member(K_buckets, JArr(<<IncomeBucket>>)),
         Member(K_txns, JArr(<<>>)),
         Member(K_version, JNum(CURRENT_VERSION))>>)
\* The seed after addBucket("Groceries", 600, false).
GroceriesLedger ==
  JObj(<<Member(K_buckets, JArr(<<IncomeBucket, GroceriesBucket>>)),
         Member(K_txns, JArr(<<>>)),
         Member(K_version, JNum(CURRENT_VERSION))>>)
\* And after a CSV import of one row.
ImportedLedger ==
  JObj(<<Member(K_buckets, JArr(<<IncomeBucket, GroceriesBucket>>)),
         Member(K_txns, JArr(<<Txn1>>)),
         Member(K_version, JNum(CURRENT_VERSION))>>)
\* The ledgers saveState is called with.
Ledgers == {SeedLedger, GroceriesLedger}

Household1 == JStr(<<"h", "1">>)
Pass1 == JStr(<<"p", "w", "1">>)
Pass2 == JStr(<<"p", "w", "2">>)
\* householdId and passphrase as the application passes them: the string
\* typed in, or null (`householdId || null`).
HouseholdArgs == {JNull, Household1}
PassphraseArgs == {JNull, Pass1, Pass2}
Households == {Household1}

\* crypto.getRandomValues(new Uint8Array(len)): one of NumRandom byte strings.
NumRandom == 1
RandomBytes(len, d) == [i \in 1..len |-> (d * 89 + i * 37) % 256]
Salts == {RandomBytes(SALT_LEN, d) : d \in 1..NumRandom}
IVs == {RandomBytes(IV_LEN, d + 100) : d \in 1..NumRandom}

(***************************************************************************)
(* State                                                                   *)
(***************************************************************************)
VARIABLES
  localMedium,         \* window.localStorage: "ok", "readonly" (setItem throws), "absent"
  localItem,           \* the item under LOCAL_STORAGE_KEY: [has, s]
  supabaseConfigured,  \* window.SUPABASE_URL and SUPABASE_ANON_KEY are set
  states,              \* the remote table: household id -> [has, payload]
  calls,               \* the loadState / saveState invocations, in call order
  lastLocalWriter,     \* the invocation whose saveLocal last changed localItem (0: none)
  codec,               \* the envelope codec applied on its own (CodecSpec)
  app                  \* the App component: its ledger and active month (LedgerSpec)

vars == <<localMedium, localItem, supabaseConfigured, states, calls, lastLocalWriter, codec, app>>
storageVars == <<localMedium, localItem, supabaseConfigured, states, calls, lastLocalWriter>>

\* The invocations a behaviour may hold.
MaxCalls == 2

NoItem == [has |-> FALSE, s |-> <<>>]
Item(text) == [has |-> TRUE, s |-> text]
NoRow == [has |-> FALSE, payload |-> JUndefined]
Row(payload) == [has |-> TRUE, payload |-> payload]
NoResult == [ok |-> FALSE, error |-> "", value |-> JUndefined, derived |-> FALSE]

(***************************************************************************)
(* Local store adapter (storage.ts 10-25)                                  *)
(***************************************************************************)
hasLocalStorage == localMedium # "absent"

\* A text left in the slot by something that is not this program.
CorruptText == <<"{", "\"", "b", "u", "c", "k", "e", "t", "s", "\"", ":">>
\* The texts the slot holds in these behaviours, and JSON.parse of each.
SlotTexts == {JSToString(JSONStringify(d)) : d \in Ledgers} \cup {CorruptText}
ParsedSlotText == [t \in SlotTexts |-> JSONParse(JStr(t))]

\* loadLocal(): the parsed item (looked up for a text of SlotTexts), or null.
loadLocal ==
  IF ~hasLocalStorage THEN JNull
  ELSE IF ~localItem.has \/ localItem.s = <<>> THEN JNull
  ELSE LET r == IF localItem.s \in SlotTexts THEN ParsedSlotText[localItem.s]
                ELSE JSONParse(JStr(localItem.s))
       IN IF r.ok THEN r.v ELSE JNull

\* saveLocal with the setItem call left out.
saveLocalSkipped(state) == localItem

\* saveLocal(state): the item afterwards.  setItem stores ToString of its
\* argument; what it throws is caught.
saveLocal(state) ==
  IF ~hasLocalStorage THEN localItem
  ELSE IF localMedium = "readonly" THEN localItem
  ELSE Item(JSToString(JSONStringify(state)))
\* Whether saveLocal changes the item at all.
saveLocalStores == hasLocalStorage /\ localMedium # "readonly"

(***************************************************************************)
(* Remote store adapter (storage.ts 28-52)                                 *)
(***************************************************************************)
\* getSupabase() returns a client.
getSupabase == supabaseConfigured
cloudAvailable == getSupabase

(***************************************************************************)
(* Invocations.  pc is the await an invocation is suspended at:            *)
(*   loadState: "fetching" -> "decrypting" -> "awaitSaveLocal" -> "done",  *)
(*              or "awaitLoadLocal" -> "done";                             *)
(*   saveState: "awaitSaveLocal" -> "encrypting" -> "upserting" -> "done". *)
(* log lists the store and codec operations the invocation has started     *)
(* and how the remote requests were answered.                              *)
(***************************************************************************)
NewCall(op, householdId, passphrase, state) ==
  [op |-> op, householdId |-> householdId, passphrase |-> passphrase, state |-> state,
   pc |-> "start", outcome |-> "pending", result |-> JUndefined, error |-> "",
   log |-> <<>>, sawWriter |-> 0, salt |-> <<>>, iv |-> <<>>,
   payload |-> JUndefined, decrypted |-> NoResult]

CallIds == 1..Len(calls)
\* A continuation that an await of an already settled promise has queued:
\* it runs before any event is handled.
MicrotaskPending == \E c \in CallIds : calls[c].pc \in {"awaitSaveLocal", "awaitLoadLocal"}
Logged(c, op) == \E i \in 1..Len(calls[c].log) : calls[c].log[i] = op

Resolve(call, value) == [call EXCEPT !.pc = "done", !.outcome = "resolved", !.result = value]
Reject(call, err) == [call EXCEPT !.pc = "done", !.outcome = "rejected", !.error = err]

\* The fallback returning null without reading the slot.
LoadLocalStepNull(call) ==
  [call EXCEPT !.pc = "awaitLoadLocal", !.result = JNull,
               !.log = Append(@, "loadLocal"), !.sawWriter = lastLocalWriter]

\* The fallback with a loadLocal that lets JSON.parse's SyntaxError escape.
LoadLocalStepThrowing(call) ==
  IF hasLocalStorage /\ localItem.has /\ localItem.s = CorruptText
  THEN Reject([call EXCEPT !.log = Append(@, "loadLocal")], "SyntaxError")
  ELSE [call EXCEPT !.pc = "awaitLoadLocal", !.result = loadLocal,
                    !.log = Append(@, "loadLocal"), !.sawWriter = lastLocalWriter]

\* `return await loadLocal()` at the end of loadState: the read.
LoadLocalStep(call) ==
  [call EXCEPT !.pc = "awaitLoadLocal", !.result = loadLocal,
               !.log = Append(@, "loadLocal"), !.sawWriter = lastLocalWriter]

\* loadState(householdId, passphrase) is called.
loadState(householdId, passphrase) ==
  /\ Len(calls) < MaxCalls
  /\ ~MicrotaskPending
  /\ LET call == NewCall("load", householdId, passphrase, JUndefined)
     IN calls' = Append(calls,
          IF Truthy(householdId) /\ Truthy(passphrase) /\ cloudAvailable
          THEN \* loadFromCloud: the select is sent
               [call EXCEPT !.pc = "fetching", !.log = Append(@, "fetch")]
          ELSE LoadLocalStep(call))
  /\ UNCHANGED <<localMedium, localItem, supabaseConfigured, states, lastLocalWriter, codec, app>>

\* loadFromCloud once decryptJSON has been called with the row's payload:
\* it has thrown already, or its crypto.subtle calls are under way.
DecryptStarted(call, payload, r) ==
  IF ~r.derived
  THEN Reject([call EXCEPT !.payload = payload, !.decrypted = r,
                           !.log = @ \o <<"fetchRow", "decrypt">>],
              r.error)
  ELSE [call EXCEPT !.pc = "decrypting", !.payload = payload, !.decrypted = r,
                    !.log = @ \o <<"fetchRow", "decrypt">>]

\* loadFromCloud selecting again, and then for good, when it finds no row.
loadFromCloudFetchedUntilFound(c, found) ==
  /\ c \in CallIds
  /\ calls[c].pc = "fetching"
  /\ ~MicrotaskPending
  /\ found => states[calls[c].householdId].has
  /\ calls' = [calls EXCEPT ![c] =
       IF ~found THEN [calls[c] EXCEPT !.pc = "fetchingAgain", !.log = Append(@, "fetchNone")]
       ELSE DecryptStarted(calls[c], states[calls[c].householdId].payload,
              decryptJSON(calls[c].passphrase.s,
                          JSONStringify(states[calls[c].householdId].payload)))]
  /\ UNCHANGED <<localMedium, localItem, supabaseConfigured, states, lastLocalWriter, codec, app>>

\* The select of loadFromCloud settles: with the row (found), with no row,
\* or with an error.
loadFromCloudFetched(c, found) ==
  /\ c \in CallIds
  /\ calls[c].pc = "fetching"
  /\ ~MicrotaskPending
  /\ found => states[calls[c].householdId].has
  /\ calls' = [calls EXCEPT ![c] =
       IF ~found THEN LoadLocalStep([calls[c] EXCEPT !.log = Append(@, "fetchNone")])
       ELSE DecryptStarted(calls[c], states[calls[c].householdId].payload,
              decryptJSON(calls[c].passphrase.s,
                          JSONStringify(states[calls[c].householdId].payload)))]
  /\ UNCHANGED <<localMedium, localItem, supabaseConfigured, states, lastLocalWriter, codec, app>>

\* loadState preferring the local slot to a decrypted remote document.
loadFromCloudDecryptedLocalWins(c) ==
  /\ c \in CallIds
  /\ calls[c].pc = "decrypting"
  /\ ~MicrotaskPending
  /\ LET call == calls[c]
         r == call.decrypted
     IN calls' = [calls EXCEPT ![c] =
          IF ~r.ok THEN Reject(call, r.error) ELSE LoadLocalStep(call)]
  /\ UNCHANGED <<localMedium, localItem, supabaseConfigured, states, lastLocalWriter, codec, app>>

\* loadState returning the remote document without `await saveLocal(remote)`.
loadFromCloudDecryptedNoMirror(c) ==
  /\ c \in CallIds
  /\ calls[c].pc = "decrypting"
  /\ ~MicrotaskPending
  /\ LET call == calls[c]
         r == call.decrypted
         remote == r.value
     IN calls' = [calls EXCEPT ![c] =
          IF ~r.ok THEN Reject(call, r.error)
          ELSE IF Truthy(remote)
          THEN Resolve(call, remote)
          ELSE LoadLocalStep(call)]
  /\ UNCHANGED <<localMedium, localItem, supabaseConfigured, states, lastLocalWriter, codec, app>>

\* decryptJSON settles in loadFromCloud; loadState mirrors a truthy result.
loadFromCloudDecrypted(c) ==
  /\ c \in CallIds
  /\ calls[c].pc = "decrypting"
  /\ ~MicrotaskPending
  /\ LET call == calls[c]
         r == call.decrypted
         remote == r.value
     IN IF ~r.ok
        THEN /\ calls' = [calls EXCEPT ![c] = Reject(call, r.error)]
             /\ UNCHANGED <<localItem, lastLocalWriter>>
        ELSE IF Truthy(remote)
        THEN /\ localItem' = saveLocal(remote)
             /\ lastLocalWriter' = IF saveLocalStores THEN c ELSE lastLocalWriter
             /\ calls' = [calls EXCEPT ![c] =
                  [call EXCEPT !.pc = "awaitSaveLocal", !.result = remote,
                               !.log = Append(@, "saveLocal")]]
        ELSE /\ calls' = [calls EXCEPT ![c] = LoadLocalStep(call)]
             /\ UNCHANGED <<localItem, lastLocalWriter>>
  /\ UNCHANGED <<localMedium, supabaseConfigured, states, codec, app>>

\* loadState returns what it has read or mirrored.
loadStateReturn(c) ==
  /\ c \in CallIds
  /\ calls[c].op = "load"
  /\ calls[c].pc \in {"awaitLoadLocal", "awaitSaveLocal"}
  /\ calls' = [calls EXCEPT ![c] = Resolve(@, @.result)]
  /\ UNCHANGED <<localMedium, localItem, supabaseConfigured, states, lastLocalWriter, codec, app>>

\* saveState starting saveToCloud before saveLocal.
saveStateCloudFirst(state, householdId, passphrase) ==
  /\ Len(calls) < MaxCalls
  /\ ~MicrotaskPending
  /\ LET remoteLeg == Truthy(householdId) /\ Truthy(passphrase) /\ cloudAvailable
         call == NewCall("save", householdId, passphrase, state)
     IN /\ localItem' = IF remoteLeg THEN localItem ELSE saveLocal(state)
        /\ lastLocalWriter' =
             IF ~remoteLeg /\ saveLocalStores THEN Len(calls) + 1 ELSE lastLocalWriter
        /\ calls' = Append(calls,
             IF remoteLeg
             THEN [call EXCEPT !.pc = "encrypting",
                               !.salt = RandomBytes(SALT_LEN, 1),
                               !.iv = RandomBytes(IV_LEN, 101),
                               !.log = <<"encrypt">>]
             ELSE [call EXCEPT !.pc = "awaitSaveLocal", !.log = <<"saveLocal">>])
  /\ UNCHANGED <<localMedium, supabaseConfigured, states, codec, app>>

\* saveState(state, householdId, passphrase) is called: saveLocal runs.
saveState(state, householdId, passphrase) ==
  /\ Len(calls) < MaxCalls
  /\ ~MicrotaskPending
  /\ localItem' = saveLocal(state)
  /\ lastLocalWriter' = IF saveLocalStores THEN Len(calls) + 1 ELSE lastLocalWriter
  /\ calls' = Append(calls,
       [NewCall("save", householdId, passphrase, state) EXCEPT
          !.pc = "awaitSaveLocal", !.log = <<"saveLocal">>])
  /\ UNCHANGED <<localMedium, supabaseConfigured, states, codec, app>>

\* saveState without the cloudAvailable() test.
saveStateAfterLocalUnguarded(c, salt, iv) ==
  /\ c \in CallIds
  /\ calls[c].op = "save"
  /\ calls[c].pc = "awaitSaveLocal"
  /\ LET call == calls[c]
     IN calls' = [calls EXCEPT ![c] =
          IF Truthy(call.householdId) /\ Truthy(call.passphrase)
          THEN [call EXCEPT !.pc = "encrypting", !.salt = salt, !.iv = iv,
                            !.log = Append(@, "encrypt")]
          ELSE Resolve(call, JUndefined)]
  /\ UNCHANGED <<localMedium, localItem, supabaseConfigured, states, lastLocalWriter, codec, app>>

\* saveState after `await saveLocal(state)`: saveToCloud starts encryptJSON
\* (salt and iv are drawn), or saveState is done.
saveStateAfterLocal(c, salt, iv) ==
  /\ c \in CallIds
  /\ calls[c].op = "save"
  /\ calls[c].pc = "awaitSaveLocal"
  /\ LET call == calls[c]
     IN calls' = [calls EXCEPT ![c] =
          IF Truthy(call.householdId) /\ Truthy(call.passphrase) /\ cloudAvailable
          THEN [call EXCEPT !.pc = "encrypting", !.salt = salt, !.iv = iv,
                            !.log = Append(@, "encrypt")]
          ELSE Resolve(call, JUndefined)]
  /\ UNCHANGED <<localMedium, localItem, supabaseConfigured, states, lastLocalWriter, codec, app>>

\* saveToCloud deriving the key from the household id, not the passphrase.
saveToCloudEncryptedUnderHousehold(c) ==
  /\ c \in CallIds
  /\ calls[c].pc = "encrypting"
  /\ ~MicrotaskPending
  /\ LET call == calls[c]
         encrypted == encryptJSON(call.householdId.s, call.state, call.salt, call.iv)
         payload == JSONParse(encrypted).v
     IN calls' = [calls EXCEPT ![c] =
          [call EXCEPT !.pc = "upserting", !.payload = payload,
                       !.log = Append(@, "upsert")]]
  /\ UNCHANGED <<localMedium, localItem, supabaseConfigured, states, lastLocalWriter, codec, app>>

\* encryptJSON settles in saveToCloud: the upsert is sent.
saveToCloudEncrypted(c) ==
  /\ c \in CallIds
  /\ calls[c].pc = "encrypting"
  /\ ~MicrotaskPending
  /\ LET call == calls[c]
         encrypted == encryptJSON(call.passphrase.s, call.state, call.salt, call.iv)
         payload == JSONParse(encrypted).v
     IN calls' = [calls EXCEPT ![c] =
          [call EXCEPT !.pc = "upserting", !.payload = payload,
                       !.log = Append(@, "upsert")]]
  /\ UNCHANGED <<localMedium, localItem, supabaseConfigured, states, lastLocalWriter, codec, app>>

\* saveToCloud without `if (error) throw error`.
saveToCloudUpsertedSwallowed(c, ok) ==
  /\ c \in CallIds
  /\ calls[c].pc = "upserting"
  /\ ~MicrotaskPending
  /\ LET call == calls[c]
     IN /\ states' = IF ok THEN [states EXCEPT ![call.householdId] = Row(call.payload)]
                     ELSE states
        /\ calls' = [calls EXCEPT ![c] =
             Resolve([call EXCEPT !.log = Append(@, IF ok THEN "upsertOk" ELSE "upsertError")],
                     JUndefined)]
  /\ UNCHANGED <<localMedium, localItem, supabaseConfigured, lastLocalWriter, codec, app>>

\* saveToCloud behind a backend that drops the write of an invocation
\* when a later saveState for the household has been called (last call wins).
saveToCloudUpsertedLastCallWins(c, ok) ==
  /\ c \in CallIds
  /\ calls[c].pc = "upserting"
  /\ ~MicrotaskPending
  /\ LET call == calls[c]
         superseded == \E d \in CallIds : d > c /\ calls[d].op = "save"
                                          /\ calls[d].householdId = call.householdId
     IN IF ok
        THEN /\ states' = IF superseded THEN states
                          ELSE [states EXCEPT ![call.householdId] = Row(call.payload)]
             /\ calls' = [calls EXCEPT ![c] =
                  Resolve([call EXCEPT !.log = Append(@, "upsertOk")], JUndefined)]
        ELSE /\ states' = states
             /\ calls' = [calls EXCEPT ![c] =
                  Reject([call EXCEPT !.log = Append(@, "upsertError")], "RemoteWriteError")]
  /\ UNCHANGED <<localMedium, localItem, supabaseConfigured, lastLocalWriter, codec, app>>

\* The upsert settles: the row is written, or the backend answers with an
\* error, which saveToCloud throws.
saveToCloudUpserted(c, ok) ==
  /\ c \in CallIds
  /\ calls[c].pc = "upserting"
  /\ ~MicrotaskPending
  /\ LET call == calls[c]
     IN IF ok
        THEN /\ states' = [states EXCEPT ![call.householdId] = Row(call.payload)]
             /\ calls' = [calls EXCEPT ![c] =
                  Resolve([call EXCEPT !.log = Append(@, "upsertOk")], JUndefined)]
        ELSE /\ states' = states
             /\ calls' = [calls EXCEPT ![c] =
                  Reject([call EXCEPT !.log = Append(@, "upsertError")], "RemoteWriteError")]
  /\ UNCHANGED <<localMedium, localItem, supabaseConfigured, lastLocalWriter, codec, app>>

(***************************************************************************)
(* Rows this client did not write: the envelope another device of the      *)
(* household sealed, an envelope of a newer version, a corrupted           *)
(* ciphertext, a plaintext that is not JSON.                               *)
(***************************************************************************)
SetProp(obj, key, val) ==
  JObj([i \in 1..Len(obj.ms) |-> IF obj.ms[i].k = key THEN Member(key, val) ELSE obj.ms[i]])
DropProp(obj, key) == JObj(SelectSeq(obj.ms, LAMBDA m : m.k # key))
\* bytes with the lowest bit of the first byte flipped.
FlipBit(bytes) ==
  [i \in 1..Len(bytes) |->
     IF i = 1 THEN (IF bytes[1] % 2 = 0 THEN bytes[1] + 1 ELSE bytes[1] - 1) ELSE bytes[i]]
FlipField(obj, key) == SetProp(obj, key, b64Encode(FlipBit(b64DecodeToBytes(GetProp(obj, key)).bytes)))

ForeignSalt == RandomBytes(SALT_LEN, 1)
ForeignIV == RandomBytes(IV_LEN, 101)
ForeignEnvelope == JSONParse(encryptJSON(Pass1.s, SeedLedger, ForeignSalt, ForeignIV)).v
UnsupportedVersionPayload == SetProp(ForeignEnvelope, K_v, JNum(2))
TamperedPayload == FlipField(ForeignEnvelope, K_cipher)
MalformedPlaintextPayload ==
  SetProp(ForeignEnvelope, K_cipher,
          b64Encode(SubtleEncrypt(deriveKey(Pass1.s, ForeignSalt), ForeignIV,
                                  TextEncode(<<"{", "\"", "b", "u", "c", "k">>))))
ForeignPayloads ==
  {ForeignEnvelope, UnsupportedVersionPayload, TamperedPayload, MalformedPlaintextPayload}

\* Some other writer replaces the row of household h.
RemoteForeignWrite(h, payload) ==
  /\ ~MicrotaskPending
  /\ states[h] # Row(payload)
  /\ states' = [states EXCEPT ![h] = Row(payload)]
  /\ UNCHANGED <<localMedium, localItem, supabaseConfigured, calls, lastLocalWriter, codec, app>>

(***************************************************************************)
(* The codec applied on its own                                            *)
(***************************************************************************)
CodecIdle ==
  [stage |-> "idle", passphrase |-> JNull, doc |-> JNull, env |-> JUndefined,
   kind |-> "none", decryptWith |-> JNull, result |-> NoResult]
CodecPassphrases == {Pass1, Pass2}
CodecDocs ==
  Ledgers \cup {ImportedLedger, JNull, JNum(0 - 42), JArr(<<>>), JStr(<<"a", "\"", "\\", "b">>)}
AlterKinds ==
  {"v2", "vString", "vMissing", "notEnvelope", "saltFlipped", "ivFlipped", "cipherFlipped"}
\* An envelope text changed in one way.
Alter(env, kind) ==
  LET e == JSONParse(env).v
  IN CASE kind = "v2" -> JSONStringify(SetProp(e, K_v, JNum(2)))
       [] kind = "vString" -> JSONStringify(SetProp(e, K_v, JStr(<<"1">>)))
       [] kind = "vMissing" -> JSONStringify(DropProp(e, K_v))
       [] kind = "notEnvelope" -> JSONStringify(JNull)
       [] kind = "saltFlipped" -> JSONStringify(FlipField(e, K_salt))
       [] kind = "ivFlipped" -> JSONStringify(FlipField(e, K_iv))
       [] kind = "cipherFlipped" -> JSONStringify(FlipField(e, K_cipher))

CodecEncrypt(salt, iv) ==
  /\ codec.stage = "input"
  /\ codec' = [codec EXCEPT !.stage = "sealed",
                            !.env = encryptJSON(codec.passphrase.s, codec.doc, salt, iv)]
  /\ UNCHANGED <<storageVars, app>>
CodecAlter(kind) ==
  /\ codec.stage = "sealed"
  /\ codec.kind = "none"
  /\ codec' = [codec EXCEPT !.kind = kind, !.env = Alter(codec.env, kind)]
  /\ UNCHANGED <<storageVars, app>>
CodecDecrypt(passphrase) ==
  /\ codec.stage = "sealed"
  /\ codec' = [codec EXCEPT !.stage = "opened", !.decryptWith = passphrase,
                            !.result = decryptJSON(passphrase.s, codec.env)]
  /\ UNCHANGED <<storageVars, app>>

(***************************************************************************)
(* The App component (App.tsx)                                             *)
(***************************************************************************)
\* App.tsx holds two definitions of the component, an earlier one (lines
\* 119-641) and a later one (lines 778-1923); a build keeps one of them.
\* app.def says which; app.state is the `state` of useState, app.monthOffset
\* the month offset, app.saved the text the last save left in the local slot
\* (<<>>: none), app.ops the number of user operations so far, app.lastOp
\* the last of them.  State is recorded once the effects of a render have
\* run.
AppDefs == {"earlier", "later"}
\* The component before it is mounted.
\* householdId, passphrase, loadedOnce, hasUnsavedChanges and isSaving are
\* the component's state of those names.  loadCalls and saveCalls are the
\* loadState and saveState invocations whose `await` in the load effect and
\* in manualSave has not resumed yet; stateFrom is the loadState invocation
\* whose result `state` was last replaced by (0: none).
\* The day of the month of new Date() where nothing else is said: a day
\* that every month has.
MidMonth == 15
AppIdle ==
  [def |-> "none", state |-> JUndefined, monthOffset |-> 0, saved |-> <<>>,
   ops |-> 0, lastOp |-> "none", day |-> MidMonth,
   householdId |-> JStr(<<>>), passphrase |-> JStr(<<>>),
   loadedOnce |-> FALSE, hasUnsavedChanges |-> FALSE, isSaving |-> FALSE,
   loadCalls |-> {}, saveCalls |-> {}, stateFrom |-> 0]

\* The user operations, the months back and the months ahead a behaviour
\* may hold.
MaxOps == 3
MaxBack == 1
MaxAhead == 3

K_deletedMonths == K_deleted \o <<"M", "o", "n", "t", "h", "s">>

\* a < b on strings: by code units, a proper prefix first.
StrLess(a, b) ==
  \E i \in 1..Len(b) :
    /\ i <= Len(a) + 1
    /\ SubSeq(a, 1, i - 1) = SubSeq(b, 1, i - 1)
    /\ (i = Len(a) + 1 \/ CharCode[a[i]] < CharCode[b[i]])

RECURSIVE SortStrings(_)
\* keys.sort(): ascending by code units.
SortStrings(ks) ==
  IF Len(ks) <= 1 THEN ks
  ELSE LET m == CHOOSE i \in 1..Len(ks) : \A j \in 1..Len(ks) : ~StrLess(ks[j], ks[i])
       IN <<ks[m]>> \o SortStrings(SubSeq(ks, 1, m - 1) \o SubSeq(ks, m + 1, Len(ks)))

\* Object.keys(obj): the keys in insertion order (none is an array index).
ObjectKeys(obj) == [i \in 1..Len(obj.ms) |-> obj.ms[i].k]

\* { ...obj, [key]: val }: the key keeps its place if obj has it, and is
\* added last if not.  obj may be undefined (`b.deletedMonths || {}`).
PutProp(obj, key, val) ==
  IF obj.t # "object" THEN JObj(<<Member(key, val)>>)
  ELSE IF \E i \in 1..Len(obj.ms) : obj.ms[i].k = key THEN SetProp(obj, key, val)
  ELSE JObj(Append(obj.ms, Member(key, val)))

\* monthKey(dt) for the date whose year * 12 + month (from 0) is n.
monthKey(n) ==
  NumberToString(n \div 12) \o <<"-">> \o
    (IF Len(NumberToString((n % 12) + 1)) < 2
     THEN <<"0">> \o NumberToString((n % 12) + 1)
     ELSE NumberToString((n % 12) + 1))
\* new Date(): a day (app.day) of January 2024.
Today == 2024 * 12
\* The days of the month whose year * 12 + month (from 0) is n.
DaysInMonth(n) ==
  IF n % 12 = 1
  THEN (IF (n \div 12) % 4 = 0 /\ ((n \div 12) % 100 # 0 \/ (n \div 12) % 400 = 0)
        THEN 29 ELSE 28)
  ELSE IF n % 12 \in {3, 5, 8, 10} THEN 30 ELSE 31
\* Date.prototype.setMonth on a date whose day of the month is day: the
\* month n when it has the day, and else the days past its end fall in the
\* month after it.
setMonth(day, n) ==
  IF day <= DaysInMonth(n) THEN [n |-> n, day |-> day]
  ELSE [n |-> n + 1, day |-> day - DaysInMonth(n)]
\* centerDate, after setMonth(getMonth() + monthOffset): its month.
centerDate(monthOffset) == setMonth(app.day, Today + monthOffset).n
activeMonthKey == monthKey(centerDate(app.monthOffset))

\* The earlier carry-forward effect without .sort(): the entry carried is
\* the one written last among the earlier months, not the latest month's.
CarryBucketEarlierUnsorted(b, amk) ==
  IF GetProp(GetProp(b, K_allocations), amk) # JUndefined THEN b
  ELSE LET allocations == GetProp(b, K_allocations)
           prevKeys == SelectSeq(ObjectKeys(allocations), LAMBDA k : StrLess(k, amk))
           carry == IF Len(prevKeys) > 0 /\ prevKeys[Len(prevKeys)] # <<>>
                    THEN GetProp(allocations, prevKeys[Len(prevKeys)])
                    ELSE JNum(0)
       IN SetProp(b, K_allocations, PutProp(allocations, amk, carry))

\* The carry-forward effect of the earlier definition, for one bucket.
CarryBucketEarlier(b, amk) ==
  IF GetProp(GetProp(b, K_allocations), amk) # JUndefined THEN b
  ELSE LET allocations == GetProp(b, K_allocations)
           prevKeys == SortStrings(SelectSeq(ObjectKeys(allocations),
                                             LAMBDA k : StrLess(k, amk)))
           carry == IF Len(prevKeys) > 0 /\ prevKeys[Len(prevKeys)] # <<>>
                    THEN GetProp(allocations, prevKeys[Len(prevKeys)])
                    ELSE JNum(0)
       IN SetProp(b, K_allocations, PutProp(allocations, amk, carry))

\* The later carry-forward effect deriving 0 whatever the earlier months hold.
CarryBucketZero(b, amk) ==
  IF GetProp(GetProp(b, K_allocations), amk) # JUndefined THEN b
  ELSE LET allocations == GetProp(b, K_allocations)
           allocationKeys == SortStrings(ObjectKeys(allocations))
       IN IF Len(allocationKeys) = 0 THEN b
          ELSE IF StrLess(amk, allocationKeys[1]) THEN b
          ELSE SetProp(b, K_allocations, PutProp(allocations, amk, JNum(0)))

\* The later carry-forward effect without its first return, adding the
\* carried amount to the entry the active month has.
CarryBucketAccumulating(b, amk) ==
  LET allocations == GetProp(b, K_allocations)
      allocationKeys == SortStrings(ObjectKeys(allocations))
      prevKeys == SelectSeq(allocationKeys, LAMBDA k : StrLess(k, amk))
      carry == IF Len(prevKeys) > 0 THEN GetProp(allocations, prevKeys[Len(prevKeys)]).n
               ELSE 0
      held == IF GetProp(allocations, amk) # JUndefined THEN GetProp(allocations, amk).n
              ELSE 0
  IN IF Len(allocationKeys) = 0 THEN b
     ELSE IF StrLess(amk, allocationKeys[1]) THEN b
     ELSE SetProp(b, K_allocations, PutProp(allocations, amk, JNum(carry + held)))

\* The later carry-forward effect carrying the bucket's first allocation.
CarryBucketFromFirst(b, amk) ==
  IF GetProp(GetProp(b, K_allocations), amk) # JUndefined THEN b
  ELSE LET allocations == GetProp(b, K_allocations)
           allocationKeys == SortStrings(ObjectKeys(allocations))
       IN IF Len(allocationKeys) = 0 THEN b
          ELSE IF StrLess(amk, allocationKeys[1]) THEN b
          ELSE SetProp(b, K_allocations,
                 PutProp(allocations, amk, GetProp(allocations, allocationKeys[1])))

\* The later carry-forward effect without its first return: the entry of
\* the active month is derived again even if there is one.
CarryBucketOverwriting(b, amk) ==
  LET allocations == GetProp(b, K_allocations)
      allocationKeys == SortStrings(ObjectKeys(allocations))
      prevKeys == SelectSeq(allocationKeys, LAMBDA k : StrLess(k, amk))
      carry == IF Len(prevKeys) > 0 /\ prevKeys[Len(prevKeys)] # <<>>
               THEN GetProp(allocations, prevKeys[Len(prevKeys)])
               ELSE JNum(0)
  IN IF Len(allocationKeys) = 0 THEN b
     ELSE IF StrLess(amk, allocationKeys[1]) THEN b
     ELSE SetProp(b, K_allocations, PutProp(allocations, amk, carry))

\* The carry-forward effect of the later definition, for one bucket.
CarryBucket(b, amk) ==
  IF GetProp(GetProp(b, K_allocations), amk) # JUndefined THEN b
  ELSE LET allocations == GetProp(b, K_allocations)
           allocationKeys == SortStrings(ObjectKeys(allocations))
           prevKeys == SelectSeq(allocationKeys, LAMBDA k : StrLess(k, amk))
           carry == IF Len(prevKeys) > 0 /\ prevKeys[Len(prevKeys)] # <<>>
                    THEN GetProp(allocations, prevKeys[Len(prevKeys)])
                    ELSE JNum(0)
       IN IF Len(allocationKeys) = 0 THEN b
          ELSE IF StrLess(amk, allocationKeys[1]) THEN b
          ELSE SetProp(b, K_allocations, PutProp(allocations, amk, carry))

\* setState((s) => ({ ...s, buckets: s.buckets.map(...) })) of the effect.
carryForward(def, s, amk) ==
  SetProp(s, K_buckets,
    JArr([i \in 1..Len(GetProp(s, K_buckets).xs) |->
            IF def = "earlier" THEN CarryBucketEarlier(GetProp(s, K_buckets).xs[i], amk)
            ELSE CarryBucket(GetProp(s, K_buckets).xs[i], amk)]))

\* uid(): an identifier no earlier call has returned (n: the operations so far).
uid(n) == <<"u">> \o NumberToString(n)
\* { id, name, allocations: { [key]: alloc } }: a bucket as seedState and
\* addBucket write it.
NewBucket(id, name, key, alloc) ==
  JObj(<<Member(K_id, JStr(id)), Member(K_name, JStr(name)),
         Member(K_allocations, JObj(<<Member(key, JNum(alloc))>>))>>)
\* { id, date, description, amount, bucketId }: a transaction as seedState
\* and parseCSV_3col write it.
NewTxn(id, date, description, amount, bucketId) ==
  JObj(<<Member(K_id, JStr(id)), Member(K_date, JStr(date)),
         Member(K_description, JStr(description)), Member(K_amount, JNum(amount)),
         Member(K_bucketId, bucketId)>>)

\* seedState() of either definition.  Of the earlier one's six transactions
\* the three with whole amounts are kept (numbers are integers here); its
\* today(-25), today(-20), today(-8) are days of the current month.
seedState(def) ==
  IF def = "earlier"
  THEN JObj(<<
         Member(K_buckets, JArr(<<
           SetProp(IncomeBucket, K_allocations, JObj(<<>>)),
           NewBucket(<<"b", "1">>, <<"G", "r", "o", "c", "e", "r", "i", "e", "s">>,
                     monthKey(Today), 600),
           NewBucket(<<"b", "2">>, <<"R", "e", "n", "t">>, monthKey(Today), 1500),
           NewBucket(<<"b", "3">>, <<"G", "a", "s">>, monthKey(Today), 250),
           NewBucket(<<"b", "4">>, <<"D", "a", "t", "e", " ", "N", "i", "g", "h", "t">>,
                     monthKey(Today), 150)>>)),
         Member(K_txns, JArr(<<
           NewTxn(<<"s", "1">>, monthKey(Today) \o <<"-", "0", "3">>,
                  <<"P", "a", "y", "c", "h", "e", "c", "k">>, 3200,
                  JStr(<<"i", "n", "c", "o", "m", "e">>)),
           NewTxn(<<"s", "2">>, monthKey(Today) \o <<"-", "0", "8">>,
                  <<"R", "e", "n", "t">>, 0 - 1500, JStr(<<"b", "2">>)),
           NewTxn(<<"s", "3">>, monthKey(Today) \o <<"-", "2", "0">>,
                  <<"P", "a", "y", "c", "h", "e", "c", "k">>, 3500,
                  JStr(<<"i", "n", "c", "o", "m", "e">>))>>))>>)
  ELSE JObj(<<
         Member(K_buckets, JArr(<<
           JObj(<<Member(K_id, JStr(<<"i", "n", "c", "o", "m", "e">>)),
                  Member(K_name, JStr(<<"I", "n", "c", "o", "m", "e">>)),
                  Member(K_allocations, JObj(<<Member(monthKey(Today), JNum(0))>>)),
                  Member(K_isIncome, JBool(TRUE))>>)>>)),
         Member(K_txns, JArr(<<>>)),
         Member(K_version, JNum(CURRENT_VERSION))>>)

\* migrateState(state): a copy, with version 1 where there was none.
migrateState(state) ==
  IF ~Truthy(GetProp(state, K_version)) THEN PutProp(state, K_version, JNum(1))
  ELSE state

\* nonIncomeBuckets without the test for an allocation key.
nonIncomeBucketsAnyKey(def, s, amk) ==
  SelectSeq(GetProp(s, K_buckets).xs, LAMBDA b :
    /\ ~Truthy(GetProp(b, K_isIncome))
    /\ ~(Truthy(GetProp(b, K_deletedMonths)) /\ Truthy(GetProp(GetProp(b, K_deletedMonths), amk))))

\* nonIncomeBuckets of either definition: the buckets listed for the month.
nonIncomeBuckets(def, s, amk) ==
  SelectSeq(GetProp(s, K_buckets).xs, LAMBDA b :
    /\ ~Truthy(GetProp(b, K_isIncome))
    /\ ~(Truthy(GetProp(b, K_deletedMonths)) /\ Truthy(GetProp(GetProp(b, K_deletedMonths), amk)))
    /\ (def = "later" => GetProp(GetProp(b, K_allocations), amk) # JUndefined))

RECURSIVE SumAllocations(_, _)
\* totals.allocated: the reduce over nonIncomeBuckets of
\* b.allocations[activeMonthKey] || 0.
SumAllocations(bs, amk) ==
  IF Len(bs) = 0 THEN 0
  ELSE (IF Truthy(GetProp(GetProp(bs[1], K_allocations), amk))
        THEN GetProp(GetProp(bs[1], K_allocations), amk).n ELSE 0)
       + SumAllocations(Tail(bs), amk)

\* monthKeyFrom(dateISO): dateISO.slice(0, 7).
monthKeyFrom(dateISO) == SubSeq(dateISO, 1, IF Len(dateISO) < 7 THEN Len(dateISO) ELSE 7)

\* monthTxns keeping the soft-deleted transactions.
monthTxnsWithDeleted(s, amk) ==
  SelectSeq(GetProp(s, K_txns).xs, LAMBDA t : monthKeyFrom(GetProp(t, K_date).s) = amk)

\* monthTxns: the transactions of the active month that are not deleted.
monthTxns(s, amk) ==
  SelectSeq(GetProp(s, K_txns).xs, LAMBDA t :
    monthKeyFrom(GetProp(t, K_date).s) = amk /\ ~Truthy(GetProp(t, K_deleted)))

RECURSIVE SumAmounts(_)
\* ts.reduce((s, t) => s + t.amount, 0).
SumAmounts(ts) ==
  IF Len(ts) = 0 THEN 0 ELSE GetProp(ts[1], K_amount).n + SumAmounts(Tail(ts))

\* leftFor(bucket): the allocation of the active month, or 0, plus the
\* amounts of the month's transactions assigned to the bucket.
leftFor(s, bucket, amk) ==
  (IF Truthy(GetProp(GetProp(bucket, K_allocations), amk))
   THEN GetProp(GetProp(bucket, K_allocations), amk).n ELSE 0)
  + SumAmounts(SelectSeq(monthTxns(s, amk),
                         LAMBDA t : GetProp(t, K_bucketId) = GetProp(bucket, K_id)))

\* The ids of a list of buckets or transactions.
Ids(xs) == {GetProp(xs[i], K_id) : i \in 1..Len(xs)}
\* xs.map((x) => (x.id === id ? { ...x, [key]: val } : x)).
MapById(xs, id, key, val) ==
  [i \in 1..Len(xs) |-> IF GetProp(xs[i], K_id) = id THEN PutProp(xs[i], key, val) ELSE xs[i]]

\* The component once a user operation op has set `state` to st and the
\* month offset to n, and the effects of the render have run: the earlier
\* definition's auto-save effect (lines 139-142) has written st to the
\* local slot; the later definition waits for manualSave, and its
\* track-changes effect (lines 821-825) has set hasUnsavedChanges.
Rendered(st, n, op) ==
  [app EXCEPT !.state = st, !.monthOffset = n, !.ops = @ + 1, !.lastOp = op,
              !.saved = IF app.def = "earlier" THEN JSToString(JSONStringify(st)) ELSE @,
              !.hasUnsavedChanges = IF app.def = "later" /\ app.loadedOnce THEN TRUE ELSE @]

\* The component mounts on an empty slot: seedState, the carry-forward
\* effect for the current month, loadState resolving to null.  The later
\* definition renders the carry-forward's setState together with
\* setLoadedOnce(true) (createRoot batches them), so that its track-changes
\* effect sets hasUnsavedChanges.
Mounted(def) ==
  [def |-> def, state |-> carryForward(def, seedState(def), monthKey(Today)),
   monthOffset |-> 0,
   saved |-> IF def = "earlier"
             THEN JSToString(JSONStringify(carryForward(def, seedState(def), monthKey(Today))))
             ELSE <<>>,
   ops |-> 0, lastOp |-> "mount", day |-> MidMonth,
   householdId |-> JStr(<<>>), passphrase |-> JStr(<<>>),
   loadedOnce |-> TRUE, hasUnsavedChanges |-> (def = "later"), isSaving |-> FALSE,
   loadCalls |-> {}, saveCalls |-> {}, stateFrom |-> 0]
\* The component mounts on the given day of the month.
MountedOn(def, day) == [Mounted(def) EXCEPT !.day = day]

\* A month box of the strip is clicked: setMonthOffset((n) => n + offset),
\* then the carry-forward effect for the new active month.
Navigate(offset) ==
  /\ app.def \in AppDefs /\ app.ops < MaxOps
  /\ offset # 0
  /\ app.monthOffset + offset >= 0 - MaxBack
  /\ app.monthOffset + offset <= MaxAhead
  /\ app' = Rendered(carryForward(app.def, app.state,
                                  monthKey(centerDate(app.monthOffset + offset))),
                     app.monthOffset + offset, "navigate")
  /\ UNCHANGED <<storageVars, codec>>

\* addBucket making the new bucket the income bucket.
addBucketAsIncome(name, alloc, addToAllFuture) ==
  /\ app.def \in AppDefs /\ app.ops < MaxOps
  /\ app.def = "earlier" => ~addToAllFuture
  /\ app' = IF name = <<>> THEN app
            ELSE Rendered(
              SetProp(app.state, K_buckets, JArr(
                Append(GetProp(app.state, K_buckets).xs,
                  PutProp(NewBucket(uid(app.ops), name, activeMonthKey, alloc),
                          K_isIncome, JBool(TRUE))))),
              app.monthOffset, "addBucket")
  /\ UNCHANGED <<storageVars, codec>>

\* addBucket(name, alloc, addToAllFuture); the earlier definition has no
\* third parameter.
addBucket(name, alloc, addToAllFuture) ==
  /\ app.def \in AppDefs /\ app.ops < MaxOps
  /\ app.def = "earlier" => ~addToAllFuture
  /\ app' = IF name = <<>> THEN app
            ELSE Rendered(
              SetProp(app.state, K_buckets, JArr(
                Append(GetProp(app.state, K_buckets).xs,
                  IF addToAllFuture
                  THEN SetProp(NewBucket(uid(app.ops), name, activeMonthKey, alloc),
                         K_allocations,
                         JObj([i \in 1..12 |->
                                 Member(monthKey(centerDate(app.monthOffset) + i - 1),
                                        JNum(alloc))]))
                  ELSE NewBucket(uid(app.ops), name, activeMonthKey, alloc)))),
              app.monthOffset, "addBucket")
  /\ UNCHANGED <<storageVars, codec>>

\* updateAlloc(bucketId, value), from the card of a listed bucket.
updateAlloc(bucketId, value) ==
  /\ app.def \in AppDefs /\ app.ops < MaxOps
  /\ bucketId \in Ids(nonIncomeBuckets(app.def, app.state, activeMonthKey))
  /\ app' = Rendered(
       SetProp(app.state, K_buckets, JArr(
         [i \in 1..Len(GetProp(app.state, K_buckets).xs) |->
            IF GetProp(GetProp(app.state, K_buckets).xs[i], K_id) = bucketId
            THEN PutProp(GetProp(app.state, K_buckets).xs[i], K_allocations,
                   PutProp(GetProp(GetProp(app.state, K_buckets).xs[i], K_allocations),
                           activeMonthKey, JNum(value)))
            ELSE GetProp(app.state, K_buckets).xs[i]])),
       app.monthOffset, "updateAlloc")
  /\ UNCHANGED <<storageVars, codec>>

\* deleteBucketForMonth without the spread of b.deletedMonths: the months
\* deleted before are forgotten.
deleteBucketForMonthForgetting(bucketId) ==
  /\ app.def \in AppDefs /\ app.ops < MaxOps
  /\ bucketId \in Ids(nonIncomeBuckets(app.def, app.state, activeMonthKey))
  /\ app' = Rendered(
       SetProp(app.state, K_buckets, JArr(
         [i \in 1..Len(GetProp(app.state, K_buckets).xs) |->
            IF GetProp(GetProp(app.state, K_buckets).xs[i], K_id) = bucketId
            THEN PutProp(GetProp(app.state, K_buckets).xs[i], K_deletedMonths,
                   PutProp(JUndefined, activeMonthKey, JBool(TRUE)))
            ELSE GetProp(app.state, K_buckets).xs[i]])),
       app.monthOffset, "deleteBucketForMonth")
  /\ UNCHANGED <<storageVars, codec>>

\* deleteBucketForMonth(bucketId), from the detail view of a listed bucket.
deleteBucketForMonth(bucketId) ==
  /\ app.def \in AppDefs /\ app.ops < MaxOps
  /\ bucketId \in Ids(nonIncomeBuckets(app.def, app.state, activeMonthKey))
  /\ app' = Rendered(
       SetProp(app.state, K_buckets, JArr(
         [i \in 1..Len(GetProp(app.state, K_buckets).xs) |->
            IF GetProp(GetProp(app.state, K_buckets).xs[i], K_id) = bucketId
            THEN PutProp(GetProp(app.state, K_buckets).xs[i], K_deletedMonths,
                   PutProp(GetProp(GetProp(app.state, K_buckets).xs[i], K_deletedMonths),
                           activeMonthKey, JBool(TRUE)))
            ELSE GetProp(app.state, K_buckets).xs[i]])),
       app.monthOffset, "deleteBucketForMonth")
  /\ UNCHANGED <<storageVars, codec>>

\* reassignTxn(id, bucketId): to a bucket of the ledger, or to none.
reassignTxn(id, bucketId) ==
  /\ app.def \in AppDefs /\ app.ops < MaxOps
  /\ id \in Ids(GetProp(app.state, K_txns).xs)
  /\ bucketId \in Ids(GetProp(app.state, K_buckets).xs) \cup {JNull}
  /\ app' = Rendered(
       SetProp(app.state, K_txns, JArr(
                MapById(GetProp(app.state, K_txns).xs, id, K_bucketId, bucketId))),
       app.monthOffset, "reassignTxn")
  /\ UNCHANGED <<storageVars, codec>>

\* softDeleteTxn(id).
softDeleteTxn(id) ==
  /\ app.def \in AppDefs /\ app.ops < MaxOps
  /\ id \in Ids(GetProp(app.state, K_txns).xs)
  /\ app' = Rendered(
       SetProp(app.state, K_txns, JArr(
                MapById(GetProp(app.state, K_txns).xs, id, K_deleted, JBool(TRUE)))),
       app.monthOffset, "softDeleteTxn")
  /\ UNCHANGED <<storageVars, codec>>

\* restoreTxn(id), from the list of deleted transactions.
restoreTxn(id) ==
  /\ app.def \in AppDefs /\ app.ops < MaxOps
  /\ id \in Ids(SelectSeq(GetProp(app.state, K_txns).xs,
                          LAMBDA t : Truthy(GetProp(t, K_deleted))))
  /\ app' = Rendered(
       SetProp(app.state, K_txns, JArr(
                MapById(GetProp(app.state, K_txns).xs, id, K_deleted, JBool(FALSE)))),
       app.monthOffset, "restoreTxn")
  /\ UNCHANGED <<storageVars, codec>>

\* deleteForever(id), from the list of deleted transactions.
deleteForever(id) ==
  /\ app.def \in AppDefs /\ app.ops < MaxOps
  /\ id \in Ids(SelectSeq(GetProp(app.state, K_txns).xs,
                          LAMBDA t : Truthy(GetProp(t, K_deleted))))
  /\ app' = Rendered(
       SetProp(app.state, K_txns, JArr(
                SelectSeq(GetProp(app.state, K_txns).xs, LAMBDA t : GetProp(t, K_id) # id))),
       app.monthOffset, "deleteForever")
  /\ UNCHANGED <<storageVars, codec>>

\* parseCSV_3col of a file with one row, "2024-01-15,HEB,-42".
ImportedRows(n) ==
  <<NewTxn(uid(n), Month1 \o <<"-", "1", "5">>, <<"H", "E", "B">>, 0 - 42, JNull)>>
\* importCSV(file): the parsed rows come first.
importCSV(rows) ==
  /\ app.def \in AppDefs /\ app.ops < MaxOps
  /\ app' = Rendered(
       SetProp(app.state, K_txns, JArr(rows \o GetProp(app.state, K_txns).xs)),
       app.monthOffset, "importCSV")
  /\ UNCHANGED <<storageVars, codec>>

\* manualSave of the later definition with no household connected:
\* saveState writes the local slot.
manualSave ==
  /\ app.def = "later" /\ app.ops < MaxOps
  /\ app' = [app EXCEPT !.saved = JSToString(JSONStringify(app.state)),
                        !.hasUnsavedChanges = FALSE,
                        !.ops = @ + 1, !.lastOp = "manualSave"]
  /\ UNCHANGED <<storageVars, codec>>

\* The page is loaded again over a written slot: the component mounts at
\* month offset 0 and the load effect replaces the seed by what loadState
\* read (the later definition: after migrateState).  The carry-forward
\* effect has run on the seed and does not run again.
Reload ==
  /\ app.def \in AppDefs /\ app.ops < MaxOps
  /\ app.saved # <<>>
  /\ app' = [app EXCEPT
       !.state = IF ~Truthy(JSONParse(JStr(app.saved)).v)
                 THEN carryForward(app.def, seedState(app.def), monthKey(Today))
                 ELSE IF app.def = "later" THEN migrateState(JSONParse(JStr(app.saved)).v)
                 ELSE JSONParse(JStr(app.saved)).v,
       !.hasUnsavedChanges = (app.def = "later"),
       !.monthOffset = 0, !.ops = @ + 1, !.lastOp = "reload"]
  /\ UNCHANGED <<storageVars, codec>>

\* What manualSave tells the user once its saveState invocation (call) has
\* settled: nothing on success (hasUnsavedChanges is cleared), the alert of
\* its catch on any rejection (hasUnsavedChanges stays set).
manualSaveReport(call) ==
  IF call.outcome = "resolved" THEN [alert |-> "", clearsUnsaved |-> TRUE]
  ELSE [alert |-> "Failed to save. Please try again.", clearsUnsaved |-> FALSE]

(***************************************************************************)
(* The later App with its loadState and saveState invocations in flight    *)
(***************************************************************************)
\* The invocations a session may make.
MaxSessionCalls == 3
\* `householdId || null`.
OrNull(x) == IF Truthy(x) THEN x ELSE JNull
\* An invocation of the component has settled and the code after its
\* `await` has not run yet: it runs before any event is handled.
ContinuationPending ==
  \E c \in app.loadCalls \cup app.saveCalls : c \in CallIds /\ calls[c].pc = "done"
SessionBusy == MicrotaskPending \/ ContinuationPending

\* onSave of the Cloud modal (its button wants both fields filled in):
\* setHouseholdId(hh); setPassphrase(pp); the load effect runs when either
\* has changed and calls loadState.
onSave(hh, pp) ==
  /\ app.def = "later" /\ ~SessionBusy
  /\ Len(calls) < MaxSessionCalls
  /\ <<hh, pp>> # <<app.householdId, app.passphrase>>
  /\ calls' = Append(calls,
       IF Truthy(OrNull(hh)) /\ Truthy(OrNull(pp)) /\ cloudAvailable
       THEN [NewCall("load", OrNull(hh), OrNull(pp), JUndefined) EXCEPT
               !.pc = "fetching", !.log = Append(@, "fetch")]
       ELSE LoadLocalStep(NewCall("load", OrNull(hh), OrNull(pp), JUndefined)))
  /\ app' = [app EXCEPT !.householdId = hh, !.passphrase = pp,
                        !.loadCalls = @ \cup {Len(calls) + 1}, !.lastOp = "onSave"]
  /\ UNCHANGED <<localMedium, localItem, supabaseConfigured, states, lastLocalWriter, codec>>

\* The load effect after `await loadState(...)`: setState(migrateState(s))
\* if s is truthy, setLoadedOnce(true); a rejection leaves the async
\* function without either.  The track-changes effect follows the setState.
loadEffectResumed(c) ==
  /\ c \in app.loadCalls /\ c \in CallIds /\ calls[c].pc = "done"
  /\ app' = IF calls[c].outcome = "resolved"
            THEN IF Truthy(calls[c].result)
                 THEN [app EXCEPT !.state = migrateState(calls[c].result),
                                  !.loadedOnce = TRUE, !.hasUnsavedChanges = TRUE,
                                  !.stateFrom = c, !.loadCalls = @ \ {c},
                                  !.lastOp = "loaded"]
                 ELSE [app EXCEPT !.loadedOnce = TRUE, !.loadCalls = @ \ {c},
                                  !.lastOp = "loaded"]
            ELSE [app EXCEPT !.loadCalls = @ \ {c}, !.lastOp = "loadFailed"]
  /\ UNCHANGED <<storageVars, codec>>

\* The Save button (disabled while isSaving) is clicked: manualSave sets
\* isSaving and calls saveState with the `state` of this render.
manualSaveCalled ==
  /\ app.def = "later" /\ ~SessionBusy /\ ~app.isSaving
  /\ Len(calls) < MaxSessionCalls
  /\ localItem' = saveLocal(app.state)
  /\ lastLocalWriter' = IF saveLocalStores THEN Len(calls) + 1 ELSE lastLocalWriter
  /\ calls' = Append(calls,
       [NewCall("save", OrNull(app.householdId), OrNull(app.passphrase), app.state) EXCEPT
          !.pc = "awaitSaveLocal", !.log = <<"saveLocal">>])
  /\ app' = [app EXCEPT !.isSaving = TRUE, !.saveCalls = @ \cup {Len(calls) + 1},
                        !.lastOp = "manualSave"]
  /\ UNCHANGED <<localMedium, supabaseConfigured, states, codec>>

\* manualSave with setIsSaving(false) at the end of the try block.
manualSaveSettledNoFinally(c) ==
  /\ c \in app.saveCalls /\ c \in CallIds /\ calls[c].pc = "done"
  /\ app' = [app EXCEPT
       !.hasUnsavedChanges = IF manualSaveReport(calls[c]).clearsUnsaved THEN FALSE ELSE @,
       !.isSaving = IF calls[c].outcome = "resolved" THEN FALSE ELSE @,
       !.saveCalls = @ \ {c},
       !.lastOp = IF calls[c].outcome = "resolved" THEN "saved" ELSE "saveFailed"]
  /\ UNCHANGED <<storageVars, codec>>

\* manualSave after `await saveState(...)`: setHasUnsavedChanges(false) in
\* the try block, the alert in the catch block, setIsSaving(false) in the
\* finally block.
manualSaveSettled(c) ==
  /\ c \in app.saveCalls /\ c \in CallIds /\ calls[c].pc = "done"
  /\ app' = [app EXCEPT
       !.hasUnsavedChanges = IF manualSaveReport(calls[c]).clearsUnsaved THEN FALSE ELSE @,
       !.isSaving = FALSE,
       !.saveCalls = @ \ {c},
       !.lastOp = IF calls[c].outcome = "resolved" THEN "saved" ELSE "saveFailed"]
  /\ UNCHANGED <<storageVars, codec>>

\* The inputs of the operations.
Groceries == <<"G", "r", "o", "c", "e", "r", "i", "e", "s">>
BucketNames == {<<>>, <<"G", "r", "o", "c", "e", "r", "i", "e", "s">>}
AllocInputs == {0, 600}
AllBucketIds == {JStr(<<"b", "1">>), JStr(<<"b", "2">>), JStr(<<"b", "3">>), JStr(<<"b", "4">>)}
                  \cup {JStr(<<"i", "n", "c", "o", "m", "e">>), JNull}
                  \cup {JStr(uid(n)) : n \in 0..MaxOps}
ReassignTargets == {JNull, JStr(<<"i", "n", "c", "o", "m", "e">>), JStr(<<"b", "1">>)}
                     \cup {JStr(uid(n)) : n \in 0..MaxOps}
AllTxnIds == {JStr(<<"s", "1">>), JStr(<<"s", "2">>), JStr(<<"s", "3">>)}
               \cup {JStr(uid(n)) : n \in 0..MaxOps}

(***************************************************************************)
(* Specifications                                                          *)
(***************************************************************************)
Init ==
  /\ localMedium \in {"ok", "readonly", "absent"}
  /\ localItem \in
       IF localMedium = "absent" THEN {NoItem}
       ELSE {NoItem, Item(JSONStringify(SeedLedger).s), Item(CorruptText)}
  /\ supabaseConfigured \in BOOLEAN
  /\ states = [h \in Households |-> NoRow]
  /\ calls = <<>>
  /\ lastLocalWriter = 0
  /\ codec = CodecIdle
  /\ app = AppIdle

Next ==
  \/ \E h \in HouseholdArgs, p \in PassphraseArgs : loadState(h, p)
  \/ \E c \in 1..MaxCalls, found \in BOOLEAN : loadFromCloudFetched(c, found)
  \/ \E c \in 1..MaxCalls : loadFromCloudDecrypted(c)
  \/ \E c \in 1..MaxCalls : loadStateReturn(c)
  \/ \E d \in Ledgers, h \in HouseholdArgs, p \in PassphraseArgs : saveState(d, h, p)
  \/ \E c \in 1..MaxCalls, salt \in Salts, iv \in IVs : saveStateAfterLocal(c, salt, iv)
  \/ \E c \in 1..MaxCalls : saveToCloudEncrypted(c)
  \/ \E c \in 1..MaxCalls, ok \in BOOLEAN : saveToCloudUpserted(c, ok)
  \/ \E h \in Households, payload \in ForeignPayloads : RemoteForeignWrite(h, payload)

Spec == Init /\ [][Next]_vars

\* The browser of one session: localStorage works and is empty, the remote
\* store is configured or not.
LiveInit ==
  /\ Init
  /\ localMedium = "ok"
  /\ localItem = NoItem

\* A call that waits for crypto.subtle and is not held up by a queued
\* continuation: loadFromCloudDecrypted or saveToCloudEncrypted can take it on.
CryptoPending(pc) == ~MicrotaskPending /\ \E c \in CallIds : calls[c].pc = pc

\* The storage operations with their scheduling: a continuation queued by an
\* await runs, a crypto.subtle operation finishes, and (the assumption of the
\* remote store) a request that was sent is answered. The two crypto.subtle
\* steps are weakly fair as well; their condition is weak fairness written
\* out, with the guard of the step (CryptoPending) for its ENABLED.
LiveSpec ==
  /\ LiveInit /\ [][Next]_vars
  /\ WF_vars(\E c \in 1..MaxCalls, found \in BOOLEAN : loadFromCloudFetched(c, found))
  /\ WF_vars(\E c \in 1..MaxCalls : loadStateReturn(c))
  /\ WF_vars(\E c \in 1..MaxCalls, salt \in Salts, iv \in IVs : saveStateAfterLocal(c, salt, iv))
  /\ WF_vars(\E c \in 1..MaxCalls, ok \in BOOLEAN : saveToCloudUpserted(c, ok))
  /\ ([]<>(~CryptoPending("decrypting"))
        \/ []<><<\E c \in 1..MaxCalls : loadFromCloudDecrypted(c)>>_vars)
  /\ ([]<>(~CryptoPending("encrypting"))
        \/ []<><<\E c \in 1..MaxCalls : saveToCloudEncrypted(c)>>_vars)

CodecInit ==
  /\ codec \in {[CodecIdle EXCEPT !.stage = "input", !.passphrase = p, !.doc = d] :
                  p \in CodecPassphrases, d \in CodecDocs}
  /\ localMedium = "ok"
  /\ localItem = NoItem
  /\ supabaseConfigured = FALSE
  /\ states = [h \in Households |-> NoRow]
  /\ calls = <<>>
  /\ lastLocalWriter = 0
  /\ app = AppIdle

CodecNext ==
  \/ \E salt \in Salts, iv \in IVs : CodecEncrypt(salt, iv)
  \/ \E kind \in AlterKinds : CodecAlter(kind)
  \/ \E p \in CodecPassphrases : CodecDecrypt(p)

CodecSpec == CodecInit /\ [][CodecNext]_vars

LedgerInit ==
  /\ app \in {Mounted(def) : def \in AppDefs}
  /\ localMedium = "ok"
  /\ localItem = NoItem
  /\ supabaseConfigured = FALSE
  /\ states = [h \in Households |-> NoRow]
  /\ calls = <<>>
  /\ lastLocalWriter = 0
  /\ codec = CodecIdle

LedgerNext ==
  \/ \E offset \in (0 - 3)..3 : Navigate(offset)
  \/ \E name \in BucketNames, alloc \in AllocInputs, all \in BOOLEAN : addBucket(name, alloc, all)
  \/ \E b \in AllBucketIds, value \in AllocInputs : updateAlloc(b, value)
  \/ \E b \in AllBucketIds : deleteBucketForMonth(b)
  \/ \E t \in AllTxnIds, b \in ReassignTargets : reassignTxn(t, b)
  \/ \E t \in AllTxnIds : softDeleteTxn(t)
  \/ \E t \in AllTxnIds : restoreTxn(t)
  \/ \E t \in AllTxnIds : deleteForever(t)
  \/ importCSV(ImportedRows(app.ops))
  \/ manualSave
  \/ Reload

LedgerSpec == LedgerInit /\ [][LedgerNext]_vars

\* The month strip alone, with the component mounted on any of these days
\* of January 2024.
MountDays == {MidMonth, 28, 29, 30, 31}
CalendarInit ==
  /\ app \in {MountedOn(def, day) : def \in AppDefs, day \in MountDays}
  /\ localMedium = "ok"
  /\ localItem = NoItem
  /\ supabaseConfigured = FALSE
  /\ states = [h \in Households |-> NoRow]
  /\ calls = <<>>
  /\ lastLocalWriter = 0
  /\ codec = CodecIdle

CalendarNext == \E offset \in (0 - 3)..3 : Navigate(offset)

CalendarSpec == CalendarInit /\ [][CalendarNext]_vars

\* A session of the later App.  The slot holds the ledger of an earlier
\* session, which the mount has loaded; household h1 holds a row another
\* device has saved under pw1, household h2 holds none.  The user connects
\* to a household, adds a bucket (MaxEdits times at most), saves.
MaxEdits == 1
Household2 == JStr(<<"h", "2">>)
SessionHouseholds == {Household1, Household2}
SessionInit ==
  /\ localMedium = "ok"
  /\ localItem = Item(JSONStringify(GroceriesLedger).s)
  /\ app = [Mounted("later") EXCEPT !.state = migrateState(GroceriesLedger)]
  /\ supabaseConfigured \in BOOLEAN
  /\ states = [h \in SessionHouseholds |->
                 IF h = Household1 THEN Row(ForeignEnvelope) ELSE NoRow]
  /\ calls = <<>>
  /\ lastLocalWriter = 0
  /\ codec = CodecIdle

SessionNext ==
  \/ \E hh \in SessionHouseholds : onSave(hh, Pass1)
  \/ \E c \in 1..MaxSessionCalls : loadEffectResumed(c)
  \/ manualSaveCalled
  \/ \E c \in 1..MaxSessionCalls : manualSaveSettled(c)
  \/ ~SessionBusy /\ app.ops < MaxEdits /\ addBucket(Groceries, 600, FALSE)
  \/ ~ContinuationPending /\ \E c \in 1..MaxSessionCalls, found \in BOOLEAN : loadFromCloudFetched(c, found)
  \/ ~ContinuationPending /\ \E c \in 1..MaxSessionCalls : loadFromCloudDecrypted(c)
  \/ \E c \in 1..MaxSessionCalls : loadStateReturn(c)
  \/ \E c \in 1..MaxSessionCalls, salt \in Salts, iv \in IVs : saveStateAfterLocal(c, salt, iv)
  \/ ~ContinuationPending /\ \E c \in 1..MaxSessionCalls : saveToCloudEncrypted(c)
  \/ ~ContinuationPending /\ \E c \in 1..MaxSessionCalls, ok \in BOOLEAN : saveToCloudUpserted(c, ok)

SessionSpec == SessionInit /\ [][SessionNext]_vars

(***************************************************************************)
(* Properties of the storage orchestrator (specification Spec)             *)
(***************************************************************************)
\* The condition under which loadState and saveState go to the remote store.
RemoteLeg(c) ==
  Truthy(calls[c].householdId) /\ Truthy(calls[c].passphrase) /\ cloudAvailable
RemoteOps ==
  {"fetch", "fetchRow", "fetchNone", "decrypt", "encrypt", "upsert", "upsertOk", "upsertError"}

\* C1 as stated: in the step that completes saveState(D, hh, pp), by return
\* or by rejection, the local slot reads back as D.
C1_AsStated ==
  [][\A c \in 1..MaxCalls :
       (c \in CallIds /\ calls[c].op = "save" /\ calls[c].pc # "done" /\ calls'[c].pc = "done")
         => loadLocal' = calls[c].state]_vars

\* C1 amended: from the local write of saveState(D, hh, pp) on, and so when
\* it completes with whatever outcome of the remote leg, loadLocal() returns
\* D, provided the medium stored the write and no other invocation has
\* written the slot since.
C1_LocalFirstDurability ==
  \A c \in CallIds :
    (calls[c].op = "save" /\ lastLocalWriter = c) => loadLocal = calls[c].state
\* A saveState whose upsert failed, and the slot reads back as its ledger.
C1_Witness ==
  \E c \in CallIds :
    /\ calls[c].op = "save" /\ calls[c].outcome = "rejected"
    /\ lastLocalWriter = c /\ loadLocal = calls[c].state

\* C2: a loadState with both credentials and the remote available, whose
\* fetch returned a row that decrypted, returns the decrypted document.
C2_RemoteWins ==
  \A c \in CallIds :
    (/\ calls[c].op = "load" /\ calls[c].pc = "done"
     /\ RemoteLeg(c) /\ Logged(c, "fetchRow") /\ calls[c].decrypted.ok)
      => calls[c].outcome = "resolved" /\ calls[c].result = calls[c].decrypted.value
\* Such a loadState has returned the remote ledger, the slot holding a text
\* that is no ledger on a medium that takes no write.
C2_Witness ==
  \E c \in CallIds :
    /\ calls[c].op = "load" /\ calls[c].pc = "done" /\ calls[c].decrypted.ok
    /\ calls[c].result = SeedLedger
    /\ localMedium = "readonly" /\ localItem = Item(CorruptText)

\* C3: a loadState with a credential missing, the remote unavailable or the
\* fetch answered with no row returns what loadLocal() returns: it reads the
\* slot, takes no other step before it returns, and has that value as its
\* result for as long as nobody writes the slot.
C3_FallbackOnLoad ==
  \A c \in CallIds :
    (/\ calls[c].op = "load"
     /\ ~RemoteLeg(c) \/ Logged(c, "fetchNone"))
      => /\ calls[c].pc \in {"awaitLoadLocal", "done"}
         /\ calls[c].pc = "awaitLoadLocal"
              => calls[c].sawWriter = lastLocalWriter /\ calls[c].result = loadLocal
         /\ calls[c].pc = "done"
              => /\ calls[c].outcome = "resolved"
                 /\ calls[c].sawWriter = lastLocalWriter => calls[c].result = loadLocal
\* The fetch found no row and loadState returned the ledger of the slot.
C3_Witness ==
  \E c \in CallIds :
    /\ calls[c].op = "load" /\ calls[c].pc = "done" /\ Logged(c, "fetchNone")
    /\ calls[c].result = SeedLedger /\ loadLocal = SeedLedger

\* C4 as stated: a loadState whose decryptJSON failed does not reject and
\* returns what loadLocal() returns.
C4_AsStated ==
  \A c \in CallIds :
    (/\ calls[c].op = "load" /\ calls[c].pc = "done"
     /\ Logged(c, "decrypt") /\ ~calls[c].decrypted.ok)
      => /\ calls[c].outcome = "resolved"
         /\ calls[c].sawWriter = lastLocalWriter => calls[c].result = loadLocal

\* C5 as stated: in the step in which the upsert of saveState(D, hh, pp)
\* fails, saveState rejects and the local slot reads back as D.
C5_AsStated ==
  [][\A c \in 1..MaxCalls :
       (/\ c \in CallIds /\ calls[c].pc = "upserting" /\ calls'[c].pc = "done"
        /\ calls'[c].log[Len(calls'[c].log)] = "upsertError")
         => calls'[c].outcome = "rejected" /\ loadLocal' = calls[c].state]_vars

\* C5 amended: a saveState whose upsert failed has rejected with that
\* failure, after its local write; the slot reads back as its ledger
\* provided the medium stored the write and no other invocation has written
\* the slot since.
C5_UpsertFailurePropagates ==
  \A c \in CallIds :
    (calls[c].op = "save" /\ Logged(c, "upsertError"))
      => /\ calls[c].pc = "done" /\ calls[c].outcome = "rejected"
         /\ calls[c].error = "RemoteWriteError"
         /\ calls[c].log[1] = "saveLocal"
         /\ lastLocalWriter = c => loadLocal = calls[c].state
\* A rejected saveState of the second ledger, which the slot holds.
C5_Witness ==
  \E c \in CallIds :
    /\ calls[c].op = "save" /\ Logged(c, "upsertError")
    /\ calls[c].error = "RemoteWriteError"
    /\ calls[c].state = GroceriesLedger /\ loadLocal = GroceriesLedger

\* C6: in the step in which loadState returns a document it got from the
\* remote store (it did not fall back), the local slot comes to read back as
\* that document if the medium stores what is written to it.
C6_MirrorOnLoad ==
  [][\A c \in 1..MaxCalls :
       (/\ c \in CallIds /\ calls[c].op = "load"
        /\ calls[c].pc # "done" /\ calls'[c].pc = "done"
        /\ calls'[c].outcome = "resolved"
        /\ \A i \in 1..Len(calls'[c].log) : calls'[c].log[i] # "loadLocal"
        /\ localMedium = "ok")
         => loadLocal' = calls'[c].result]_vars
\* A loadState returned the ledger another device had stored, which the
\* slot now holds though no saveState ran here.
C6_Witness ==
  /\ \A d \in CallIds : calls[d].op = "load"
  /\ \E c \in CallIds :
       /\ calls[c].outcome = "resolved" /\ ~Logged(c, "loadLocal")
       /\ localMedium = "ok" /\ lastLocalWriter = c
       /\ loadLocal = calls[c].result /\ loadLocal = SeedLedger

\* C7: an invocation starts a fetch, a decryption, an encryption or an
\* upsert only with both credentials present and cloudAvailable() true;
\* without that a saveState does its local write and returns.
C7_NoRemoteWithoutCredentials ==
  \A c \in CallIds :
    /\ (\E i \in 1..Len(calls[c].log) : calls[c].log[i] \in RemoteOps) => RemoteLeg(c)
    /\ (calls[c].op = "save" /\ ~RemoteLeg(c))
         => /\ calls[c].log = <<"saveLocal">>
            /\ calls[c].pc \in {"awaitSaveLocal", "done"}
            /\ calls[c].pc = "done" => calls[c].outcome = "resolved"
\* A saveState with a household id but no passphrase has returned, the
\* remote being configured.
C7_Witness ==
  \E c \in CallIds :
    /\ calls[c].op = "save" /\ calls[c].pc = "done" /\ calls[c].outcome = "resolved"
    /\ Truthy(calls[c].householdId) /\ ~Truthy(calls[c].passphrase) /\ cloudAvailable
    /\ calls[c].log = <<"saveLocal">>

\* C8: in the log of a saveState every encryption and every upsert comes
\* after the local write.
C8_LocalWriteFirst ==
  \A c \in CallIds :
    calls[c].op = "save" =>
      \A i \in 1..Len(calls[c].log) :
        calls[c].log[i] \in {"encrypt", "upsert"} =>
          \E j \in 1..(i - 1) : calls[c].log[j] = "saveLocal"
\* A saveState has sent its upsert.
C8_Witness ==
  \E c \in CallIds :
    calls[c].op = "save" /\ calls[c].log = <<"saveLocal", "encrypt", "upsert">>

\* C11: the local adapter never fails its caller.  With the medium absent,
\* the slot empty or its text malformed, loadLocal returns null; with the
\* medium absent or refusing writes, saveLocal leaves the slot as it is; and
\* an invocation of loadState or saveState that is rejected was rejected by
\* the operation it started last, which is the codec's decryption or the
\* remote upsert, never a read or a write of the local slot.
C11_LocalAdapterNeverFails ==
  /\ (~hasLocalStorage \/ ~localItem.has \/ localItem.s = CorruptText) => loadLocal = JNull
  /\ ~saveLocalStores => \A d \in Ledgers : saveLocal(d) = localItem
  /\ \A c \in CallIds :
       /\ calls[c].outcome = "rejected" =>
            calls[c].log[Len(calls[c].log)] \in {"decrypt", "upsertError"}
       /\ (calls[c].pc = "done" /\ ~Logged(c, "decrypt") /\ ~Logged(c, "upsert")) =>
            calls[c].outcome = "resolved"
\* A load has read the malformed slot and resolved to null, and a save whose
\* setItem threw has resolved, the slot unchanged.
C11_Witness ==
  /\ localMedium = "readonly"
  /\ localItem = Item(CorruptText)
  /\ \E c, d \in CallIds :
       /\ calls[c].op = "load" /\ calls[c].outcome = "resolved"
       /\ Logged(c, "loadLocal") /\ calls[c].result = JNull
       /\ calls[d].op = "save" /\ calls[d].outcome = "resolved"
       /\ calls[d].log = <<"saveLocal">>

\* C17: a failed cloud save is not reported as a failed save.  When a
\* saveState invocation is rejected (its remote leg failed) while the local
\* slot holds the ledger it was given, the application's save action does
\* not tell the user that saving failed.
C17_AsStated ==
  \A c \in CallIds :
    (/\ calls[c].op = "save" /\ calls[c].outcome = "rejected"
     /\ loadLocal = calls[c].state)
    => manualSaveReport(calls[c]).alert # "Failed to save. Please try again."

\* C22: overlapping saves are not ordered remotely.  Whatever other
\* invocations are under way, an upsert that succeeds leaves the row of
\* its household holding the envelope of its own invocation (the last
\* response wins), and a saveState that is called writes its own ledger
\* to a storing local slot at once (the later call wins locally): so
\* with saveState(D1, hh, pp) and saveState(D2, hh, pp) both called before
\* the first upsert settles, the row can end as D1's envelope while the
\* slot holds D2.
C22_LastResponseWins ==
  [][/\ \A c \in CallIds :
          (calls[c].pc = "upserting" /\ calls'[c].outcome = "resolved")
          => states'[calls[c].householdId] = Row(calls[c].payload)
     /\ (Len(calls') = Len(calls) + 1 /\ calls'[Len(calls')].op = "save" /\ saveLocalStores)
        => localItem' = Item(JSToString(JSONStringify(calls'[Len(calls')].state)))]_vars
\* Two saves of different ledgers for one household overlapped, the second
\* upsert was answered first, and both have resolved: the row holds the
\* first call's envelope, the slot the second call's ledger.
C22_Witness ==
  /\ Len(calls) = 2
  /\ calls[1].op = "save" /\ calls[2].op = "save"
  /\ calls[1].householdId = calls[2].householdId
  /\ calls[1].passphrase = calls[2].passphrase
  /\ calls[1].state # calls[2].state
  /\ calls[1].outcome = "resolved" /\ calls[2].outcome = "resolved"
  /\ Logged(1, "upsertOk") /\ Logged(2, "upsertOk")
  /\ states[calls[1].householdId] = Row(calls[1].payload)
  /\ calls[1].payload # calls[2].payload
  /\ loadLocal = calls[2].state

\* The save that wrote the row a load has fetched: a saveState that returned
\* after its upsert succeeded, for the household and with the passphrase of
\* the load c, whose payload is the one c was given.
SavedRowOf(c) ==
  {d \in CallIds :
     /\ calls[d].op = "save" /\ calls[d].outcome = "resolved" /\ Logged(d, "upsertOk")
     /\ calls[d].householdId = calls[c].householdId
     /\ calls[d].passphrase = calls[c].passphrase
     /\ calls[d].payload = calls[c].payload}
\* The step in which the load c completes.
LoadCompletes(c) ==
  /\ c \in CallIds /\ calls[c].op = "load"
  /\ calls[c].pc # "done" /\ calls'[c].pc = "done"

\* C25 as stated: a loadState(hh, pp) that fetched the row a successful
\* saveState(D, hh, pp) wrote returns D and leaves the local slot reading
\* back as D.
C25_AsStated ==
  [][\A c \in 1..MaxCalls : \A d \in 1..MaxCalls :
       (LoadCompletes(c) /\ RemoteLeg(c) /\ d \in SavedRowOf(c))
       => /\ calls'[c].outcome = "resolved" /\ calls'[c].result = calls[d].state
          /\ loadLocal' = calls[d].state]_vars
\* C25: such a loadState returns D, and leaves the local slot reading back
\* as D if the local medium stores what is written to it.
C25_RemoteRoundTrip ==
  [][\A c \in 1..MaxCalls : \A d \in 1..MaxCalls :
       (LoadCompletes(c) /\ RemoteLeg(c) /\ d \in SavedRowOf(c))
       => /\ calls'[c].outcome = "resolved" /\ calls'[c].result = calls[d].state
          /\ saveLocalStores => loadLocal' = calls[d].state]_vars
\* saveState(GroceriesLedger, hh, pp) has returned after its upsert, and
\* the loadState(hh, pp) issued after it has fetched that row, written the
\* slot and returned GroceriesLedger.
C25_Witness ==
  /\ Len(calls) = 2
  /\ calls[1].op = "save" /\ calls[1].outcome = "resolved" /\ Logged(1, "upsertOk")
  /\ calls[2].op = "load" /\ calls[2].outcome = "resolved" /\ 1 \in SavedRowOf(2)
  /\ calls[2].result = GroceriesLedger
  /\ localMedium = "ok" /\ lastLocalWriter = 2 /\ loadLocal = GroceriesLedger

(***************************************************************************)
(* Termination (specification LiveSpec)                                    *)
(***************************************************************************)
\* C23: if every remote request that is sent is answered, every loadState
\* and every saveState invocation eventually completes, by return or by
\* rejection; and an invocation without both credentials, or with the
\* remote not configured, is never waiting for a remote request or a
\* codec operation: it is at a continuation that runs next, or done.
C23_EveryInvocationCompletes ==
  /\ \A c \in 1..MaxCalls : [](c \in CallIds => <>(c \in CallIds /\ calls[c].pc = "done"))
  /\ [](\A c \in CallIds :
          ~RemoteLeg(c) => calls[c].pc \in {"awaitLoadLocal", "awaitSaveLocal", "done"})
\* A loadState that waited for its select and for the decryption, and a
\* saveState that waited for its upsert, have both completed.
C23_Witness ==
  /\ Len(calls) = 2
  /\ \E c, d \in CallIds :
       /\ calls[c].op = "load" /\ calls[c].pc = "done" /\ Logged(c, "decrypt")
       /\ calls[d].op = "save" /\ calls[d].pc = "done" /\ Logged(d, "upsert")

(***************************************************************************)
(* Properties of the envelope codec (specification CodecSpec)              *)
(***************************************************************************)
\* C9: decryptJSON(p, encryptJSON(p, D)) returns D, for the passphrases and
\* the documents of CodecInit.
C9_RoundTrip ==
  (codec.stage = "opened" /\ codec.kind = "none" /\ codec.decryptWith = codec.passphrase)
    => codec.result.ok /\ codec.result.value = codec.doc
\* The imported ledger has gone through encryptJSON and decryptJSON.
C9_Witness ==
  /\ codec.stage = "opened" /\ codec.kind = "none" /\ codec.decryptWith = codec.passphrase
  /\ codec.doc = ImportedLedger /\ codec.result.value = ImportedLedger

\* C10: for an envelope whose v is not the number 1, or is missing,
\* decryptJSON throws "Unsupported payload" before it calls deriveKey.
C10_UnsupportedVersionFails ==
  (/\ codec.stage = "opened"
   /\ JSONParse(codec.env).ok
   /\ GetProp(JSONParse(codec.env).v, K_v) # JNum(1))
    => /\ ~codec.result.ok
       /\ ~codec.result.derived
       /\ codec.result.error = "Unsupported payload"
       /\ codec.result.value = JUndefined
\* An envelope sealed under p with its v removed was given to decryptJSON
\* with p.
C10_Witness ==
  /\ codec.stage = "opened" /\ codec.kind = "vMissing"
  /\ codec.decryptWith = codec.passphrase
  /\ codec.result.error = "Unsupported payload"

(***************************************************************************)
(* Properties of the ledger (specification LedgerSpec)                     *)
(***************************************************************************)
\* The months an allocation key of these behaviours can name (addBucket
\* writes up to eleven months past the active one), as year * 12 + month,
\* and their keys.
MonthRange == (Today - MaxBack - 1)..(Today + MaxAhead + 12)
MonthKeys == [n \in MonthRange |-> monthKey(n)]
Buckets(a) == GetProp(a.state, K_buckets).xs
\* The allocation of bucket b for month n (undefined: no entry).
AllocAt(b, n) == GetProp(GetProp(b, K_allocations), MonthKeys[n])
\* The months before n for which b has an entry, and the latest of them.
EarlierMonths(b, n) == {k \in MonthRange : k < n /\ AllocAt(b, k) # JUndefined}
LatestBefore(b, n) == CHOOSE k \in EarlierMonths(b, n) : \A j \in EarlierMonths(b, n) : j <= k
\* A step of Navigate.
NavigateStep == app'.lastOp = "navigate" /\ app'.ops = app.ops + 1

\* C12: when a navigation makes M the active month, every bucket that had
\* no entry for M and had an entry for some month strictly before M gets
\* an entry for M equal to its allocation of the latest such month.
C12_CarryForwardDerivation ==
  [][NavigateStep =>
       \A i \in 1..Len(Buckets(app)) :
         (/\ AllocAt(Buckets(app)[i], Today + app'.monthOffset) = JUndefined
          /\ EarlierMonths(Buckets(app)[i], Today + app'.monthOffset) # {})
         => AllocAt(Buckets(app')[i], Today + app'.monthOffset)
              = AllocAt(Buckets(app)[i],
                        LatestBefore(Buckets(app)[i], Today + app'.monthOffset))]_vars
\* The later definition, Groceries allocated 600 in 2024-01, has navigated
\* to 2024-03 with nothing allocated in 2024-02: 600 is derived for 2024-03.
C12_Witness ==
  /\ app.def = "later" /\ app.lastOp = "navigate"
  /\ MonthKeys[Today + app.monthOffset] = <<"2", "0", "2", "4", "-", "0", "3">>
  /\ \E i \in 1..Len(Buckets(app)) :
       /\ GetProp(Buckets(app)[i], K_name) = JStr(Groceries)
       /\ AllocAt(Buckets(app)[i], Today) = JNum(600)
       /\ AllocAt(Buckets(app)[i], Today + 1) = JUndefined
       /\ AllocAt(Buckets(app)[i], Today + 2) = JNum(600)

\* C13: no retroactive creation.  When a navigation makes M the active
\* month, a bucket that has no entry for M and none for any month before
\* M (M lies before its earliest allocation, or it has no allocation at
\* all) still has no entry for M afterwards.
C13_AsStated ==
  [][NavigateStep =>
       \A i \in 1..Len(Buckets(app)) :
         (/\ AllocAt(Buckets(app)[i], Today + app'.monthOffset) = JUndefined
          /\ EarlierMonths(Buckets(app)[i], Today + app'.monthOffset) = {})
         => AllocAt(Buckets(app')[i], Today + app'.monthOffset) = JUndefined]_vars

\* The months the strip can make active.
ActiveMonths == (Today - MaxBack)..(Today + MaxAhead)

\* C14: carry-forward is idempotent.  For the ledger of every reachable
\* state and every month M, applying the carry-forward transition for M
\* twice in succession gives the same ledger, bucket allocations included,
\* as applying it once.
C14_CarryForwardIdempotent ==
  app.def \in AppDefs =>
    \A n \in ActiveMonths :
      carryForward(app.def, carryForward(app.def, app.state, MonthKeys[n]), MonthKeys[n])
        = carryForward(app.def, app.state, MonthKeys[n])
\* The later definition has just derived a non-zero entry for the active
\* month by a navigation (the entry is what the month before holds and
\* the month before that does not), and applying the transition for the
\* active month again leaves the ledger as it is.
C14_Witness ==
  /\ app.def = "later" /\ app.lastOp = "navigate" /\ app.monthOffset >= 2
  /\ \E i \in 1..Len(Buckets(app)) :
       /\ AllocAt(Buckets(app)[i], Today + app.monthOffset) = JNum(600)
       /\ AllocAt(Buckets(app)[i], Today + app.monthOffset - 1) = JUndefined
  /\ carryForward(app.def, app.state, activeMonthKey) = app.state

\* The carry-forward of definition def for bucket b and month n, and its
\* application for the months from, from + 1, ..., to in turn.
CarryFor(def, b, n) ==
  IF def = "earlier" THEN CarryBucketEarlier(b, MonthKeys[n]) ELSE CarryBucket(b, MonthKeys[n])
RECURSIVE CarrySequentially(_, _, _, _)
CarrySequentially(def, b, from, to) ==
  IF from > to THEN b
  ELSE CarrySequentially(def, CarryFor(def, b, from), from + 1, to)
\* The months bucket b has an entry for.
AllocatedMonths(b) == {n \in MonthRange : AllocAt(b, n) # JUndefined}
LastAllocated(b) == CHOOSE n \in AllocatedMonths(b) : \A k \in AllocatedMonths(b) : k <= n

\* For bucket b, whose last allocated month is m2: every later month m3
\* derived directly and derived month by month holds the allocation of m2.
OrderIndependent(def, b, m2) ==
  \A m3 \in ActiveMonths :
    m3 > m2 =>
      /\ AllocAt(CarryFor(def, b, m3), m3) = AllocAt(b, m2)
      /\ AllocAt(CarrySequentially(def, b, m2 + 1, m3), m3) = AllocAt(b, m2)

\* C15: carry-forward does not depend on the order of derivation.  For a
\* bucket with allocations in exactly two months m1 < m2 and any month
\* m3 > m2, deriving m3 directly gives the allocation of m2, and so does
\* deriving m2 + 1, m2 + 2, ..., m3 one after the other.
C15_OrderingIndependence ==
  app.def \in AppDefs =>
    \A i \in 1..Len(Buckets(app)) :
      (/\ Len(GetProp(Buckets(app)[i], K_allocations).ms) = 2
       /\ Cardinality(AllocatedMonths(Buckets(app)[i])) = 2)
      => OrderIndependent(app.def, Buckets(app)[i], LastAllocated(Buckets(app)[i]))
\* In the later definition a bucket holds 600 for 2024-01 and, after
\* updateAlloc, 0 for 2024-02, and nothing else; 2024-04 derived directly
\* and 2024-03, 2024-04 derived in turn both give 0 for 2024-04.
C15_Witness ==
  /\ app.def = "later" /\ app.lastOp = "updateAlloc"
  /\ \E i \in 1..Len(Buckets(app)) :
       /\ AllocatedMonths(Buckets(app)[i]) = {Today, Today + 1}
       /\ AllocAt(Buckets(app)[i], Today) = JNum(600)
       /\ AllocAt(Buckets(app)[i], Today + 1) = JNum(0)
       /\ AllocAt(CarryBucket(Buckets(app)[i], MonthKeys[Today + 3]), Today + 3) = JNum(0)
       /\ AllocAt(CarrySequentially("later", Buckets(app)[i], Today + 2, Today + 3),
                  Today + 2) = JNum(0)

\* C16: when a navigation makes M the active month, a bucket that already
\* has an entry for M, be it 0, keeps its allocations exactly as they were
\* (the bucket as a whole is the same).
C16_ExplicitEntryUnchanged ==
  [][NavigateStep =>
       \A i \in 1..Len(Buckets(app)) :
         AllocAt(Buckets(app)[i], Today + app'.monthOffset) # JUndefined
         => /\ GetProp(Buckets(app')[i], K_allocations) = GetProp(Buckets(app)[i], K_allocations)
            /\ Buckets(app')[i] = Buckets(app)[i]]_vars
\* The later definition has navigated from 2024-01 to 2024-02 and back:
\* Groceries, with its explicit 600 for 2024-01 and the derived entry for
\* 2024-02, is as it was, and so is the income bucket with its explicit 0.
C16_Witness ==
  /\ app.def = "later" /\ app.lastOp = "navigate" /\ app.monthOffset = 0
  /\ \E i \in 1..Len(Buckets(app)) :
       /\ GetProp(Buckets(app)[i], K_name) = JStr(Groceries)
       /\ AllocatedMonths(Buckets(app)[i]) = {Today, Today + 1}
       /\ AllocAt(Buckets(app)[i], Today) = JNum(600)
  /\ AllocAt(Buckets(app)[1], Today) = JNum(0)

\* C18: carry-forward derives entries for non-income buckets only.  On
\* every navigation the allocations of the income bucket stay as they
\* were.
C18_AsStated ==
  [][NavigateStep =>
       \A i \in 1..Len(Buckets(app)) :
         Truthy(GetProp(Buckets(app)[i], K_isIncome))
         => GetProp(Buckets(app')[i], K_allocations) = GetProp(Buckets(app)[i], K_allocations)]_vars

\* Bucket b has an allocation key for month n and n is not among its
\* deletedMonths.
ActiveIn(b, n) ==
  /\ AllocAt(b, n) # JUndefined
  /\ GetProp(GetProp(b, K_deletedMonths), MonthKeys[n]) # JBool(TRUE)
RECURSIVE ActiveTotal(_, _)
\* The allocations for month n of the non-income buckets of bs active in n.
ActiveTotal(bs, n) ==
  IF Len(bs) = 0 THEN 0
  ELSE (IF ~Truthy(GetProp(bs[1], K_isIncome)) /\ ActiveIn(bs[1], n) /\ AllocAt(bs[1], n).t = "number"
        THEN AllocAt(bs[1], n).n ELSE 0)
       + ActiveTotal(Tail(bs), n)
\* The buckets listed for month n.
Listed(a, n) == nonIncomeBuckets(a.def, a.state, MonthKeys[n])

\* C19: in the later definition, for every month, a non-income bucket is
\* active (it is among the buckets listed for the month, whose
\* allocations make up the allocated total) if and only if it has an
\* allocation key for the month and the month is not in its deletedMonths.
C19_ActiveIff ==
  app.def = "later" =>
    \A n \in ActiveMonths :
      /\ \A i \in 1..Len(Buckets(app)) :
           ~Truthy(GetProp(Buckets(app)[i], K_isIncome)) =>
             ((\E j \in 1..Len(Listed(app, n)) : Listed(app, n)[j] = Buckets(app)[i])
                <=> ActiveIn(Buckets(app)[i], n))
      /\ SumAllocations(Listed(app, n), MonthKeys[n]) = ActiveTotal(Buckets(app), n)
\* Groceries, allocated 600 in the active month, has just been deleted for
\* that month: it has the key, is not listed and counts for nothing, while
\* next month, for which it has no key, it is not listed either.
C19_Witness ==
  /\ app.def = "later" /\ app.lastOp = "deleteBucketForMonth"
  /\ \E i \in 1..Len(Buckets(app)) :
       /\ AllocAt(Buckets(app)[i], Today + app.monthOffset) = JNum(600)
       /\ ~ActiveIn(Buckets(app)[i], Today + app.monthOffset)
       /\ AllocAt(Buckets(app)[i], Today + app.monthOffset + 1) = JUndefined
  /\ Listed(app, Today + app.monthOffset) = <<>>
  /\ SumAllocations(Listed(app, Today + app.monthOffset), activeMonthKey) = 0

\* C20: in every ledger the component holds, from the seed on and after
\* any sequence of addBucket, updateAlloc, deleteBucketForMonth,
\* navigation, transaction operations, saving and loading again, exactly
\* one bucket has isIncome = true.
C20_ExactlyOneIncomeBucket ==
  app.def \in AppDefs =>
    Cardinality({i \in 1..Len(Buckets(app)) :
                   GetProp(Buckets(app)[i], K_isIncome) = JBool(TRUE)}) = 1
\* The later definition has added a bucket, saved, and loaded the page
\* again: of the two buckets read back, the first is the income bucket
\* and the second is not.
C20_Witness ==
  /\ app.def = "later" /\ app.lastOp = "reload"
  /\ Len(Buckets(app)) = 2
  /\ GetProp(Buckets(app)[1], K_isIncome) = JBool(TRUE)
  /\ GetProp(Buckets(app)[2], K_isIncome) = JUndefined
  /\ GetProp(Buckets(app)[2], K_name) = JStr(Groceries)

Txns(a) == GetProp(a.state, K_txns).xs
\* The month a transaction is dated in: the n whose key opens its date.
DatedIn(t, n) == SubSeq(GetProp(t, K_date).s, 1, 7) = MonthKeys[n]
\* Transaction t counts for bucket b in month n: dated in n, assigned to
\* b, not soft-deleted.
CountsFor(t, b, n) ==
  /\ DatedIn(t, n)
  /\ GetProp(t, K_bucketId) = GetProp(b, K_id)
  /\ GetProp(t, K_deleted) # JBool(TRUE)
RECURSIVE AmountsFor(_, _, _, _)
\* The amounts of the transactions ts[i], ts[i + 1], ... that count for b in n.
AmountsFor(ts, i, b, n) ==
  IF i > Len(ts) THEN 0
  ELSE (IF CountsFor(ts[i], b, n) THEN GetProp(ts[i], K_amount).n ELSE 0)
       + AmountsFor(ts, i + 1, b, n)
\* What is left of bucket b in month n.
Remaining(a, b, n) ==
  (IF AllocAt(b, n) = JUndefined THEN 0 ELSE AllocAt(b, n).n) + AmountsFor(Txns(a), 1, b, n)
\* The transaction a step of softDeleteTxn or restoreTxn acts on.
Toggled(i) ==
  /\ i \in 1..Len(Txns(app)) /\ Len(Txns(app')) = Len(Txns(app))
  /\ Txns(app')[i] # Txns(app)[i]

\* C21: in every state, for every bucket and the active month, leftFor is
\* the bucket's allocation for the month (0 if it has none) plus the
\* amounts of exactly the transactions dated in the month, assigned to the
\* bucket and not soft-deleted.  A step that soft-deletes such a
\* transaction lowers leftFor of its bucket by its amount, and a step that
\* restores it raises leftFor by its amount.
C21_RemainingAmount ==
  /\ [](app.def \in AppDefs =>
         \A i \in 1..Len(Buckets(app)) :
           leftFor(app.state, Buckets(app)[i], activeMonthKey)
             = Remaining(app, Buckets(app)[i], Today + app.monthOffset))
  /\ [][(app'.lastOp \in {"softDeleteTxn", "restoreTxn"} /\ app'.ops = app.ops + 1) =>
          \A i \in 1..Len(Txns(app)), j \in 1..Len(Buckets(app)) :
            (/\ Toggled(i)
             /\ DatedIn(Txns(app)[i], Today + app.monthOffset)
             /\ GetProp(Txns(app)[i], K_bucketId) = GetProp(Buckets(app)[j], K_id))
            => leftFor(app'.state, Buckets(app')[j], activeMonthKey)
                 = leftFor(app.state, Buckets(app)[j], activeMonthKey)
                   + (IF app'.lastOp = "restoreTxn" THEN 1 ELSE 0 - 1)
                     * GetProp(Txns(app)[i], K_amount).n]_vars
\* The rent of 1500, paid from the Rent bucket allocated 1500, was
\* soft-deleted and has just been restored: nothing is left of the bucket
\* again, and the transaction is in the ledger with deleted: false.
C21_Witness ==
  /\ app.lastOp = "restoreTxn" /\ app.monthOffset = 0
  /\ \E i \in 1..Len(Txns(app)), j \in 1..Len(Buckets(app)) :
       /\ GetProp(Txns(app)[i], K_deleted) = JBool(FALSE)
       /\ GetProp(Txns(app)[i], K_amount) = JNum(0 - 1500)
       /\ CountsFor(Txns(app)[i], Buckets(app)[j], Today)
       /\ AllocAt(Buckets(app)[j], Today) = JNum(1500)
       /\ leftFor(app.state, Buckets(app)[j], activeMonthKey) = 0

\* The months a navigation can reach and one month either side of them.
CarryMonths == (Today - MaxBack - 1)..(Today + MaxAhead + 1)
\* Both carry-forward effects give the same bucket for b, whose allocated
\* months are ms, in every month that is one of ms or later than one.
AgreeFrom(b, ms) ==
  \A n \in CarryMonths :
    (\E k \in ms : k <= n)
    => CarryBucketEarlier(b, MonthKeys[n]) = CarryBucket(b, MonthKeys[n])

\* C27: the two carry-forward definitions agree on every bucket that has
\* an allocation entry for the month or for some month strictly before it.
\* For the ledger of every reachable state, every bucket b of it and every
\* month M: if b has an entry for M or for an earlier month, the earlier
\* definition's effect and the later definition's effect give the same
\* bucket, allocations included.
C27_DefinitionsAgree ==
  \A i \in 1..Len(Buckets(app)) : AgreeFrom(Buckets(app)[i], AllocatedMonths(Buckets(app)[i]))
\* A bucket holds 0 for one month and 600 for the next and nothing for the
\* month after: both definitions derive 600 for that month.
C27_Witness ==
  \E i \in 1..Len(Buckets(app)), n \in ActiveMonths :
    /\ AllocAt(Buckets(app)[i], n) = JUndefined
    /\ AllocAt(Buckets(app)[i], n - 1) = JNum(600)
    /\ AllocAt(Buckets(app)[i], n - 2) = JNum(0)
    /\ AllocAt(CarryBucketEarlier(Buckets(app)[i], MonthKeys[n]), n) = JNum(600)
    /\ AllocAt(CarryBucket(Buckets(app)[i], MonthKeys[n]), n) = JNum(600)

\* The deletedMonths entry of bucket b for month n (undefined: none).
DeletedAt(b, n) == GetProp(GetProp(b, K_deletedMonths), MonthKeys[n])
\* A step of deleteBucketForMonth.
DeleteBucketStep == app'.lastOp = "deleteBucketForMonth" /\ app'.ops = app.ops + 1
\* Bucket b1 is bucket b but for its deletedMonths entry for month m, which
\* is true: same allocations, same entries for every other month, and
\* nothing else of the bucket differs.
DeletedOnlyFor(b, b1, m) ==
  /\ DeletedAt(b1, m) = JBool(TRUE)
  /\ GetProp(b1, K_allocations) = GetProp(b, K_allocations)
  /\ \A n \in MonthRange \ {m} : DeletedAt(b1, n) = DeletedAt(b, n)
  /\ DropProp(b1, K_deletedMonths) = DropProp(b, K_deletedMonths)

\* C29: a step deleteBucketForMonth(b) with active month M leaves the
\* transactions and every member of the ledger other than the buckets as
\* they were, leaves every bucket but one as it was, and changes of that
\* one only the deletedMonths entry for M; so in every other month the
\* buckets listed are the ones listed before.
C29_DeleteTouchesOneEntry ==
  [][DeleteBucketStep =>
       /\ SetProp(app'.state, K_buckets, GetProp(app.state, K_buckets)) = app.state
       /\ Len(Buckets(app')) = Len(Buckets(app))
       /\ \E j \in 1..Len(Buckets(app)) :
            /\ DeletedOnlyFor(Buckets(app)[j], Buckets(app')[j], Today + app.monthOffset)
            /\ \A i \in 1..Len(Buckets(app)) \ {j} : Buckets(app')[i] = Buckets(app)[i]
       /\ app'.monthOffset = app.monthOffset
       /\ \A n \in ActiveMonths \ {Today + app.monthOffset} :
            Ids(Listed(app', n)) = Ids(Listed(app, n))]_vars
\* A bucket with allocations for 2024-01 and 2024-02 has been deleted for
\* 2024-01 and then for 2024-02: it holds both entries and both
\* allocations, and is listed for neither month.
C29_Witness ==
  /\ app.lastOp = "deleteBucketForMonth" /\ app.monthOffset = 1
  /\ \E i \in 1..Len(Buckets(app)) :
       /\ DeletedAt(Buckets(app)[i], Today) = JBool(TRUE)
       /\ DeletedAt(Buckets(app)[i], Today + 1) = JBool(TRUE)
       /\ AllocAt(Buckets(app)[i], Today) = JNum(600)
       /\ AllocAt(Buckets(app)[i], Today + 1) = JNum(600)
       /\ ~ActiveIn(Buckets(app)[i], Today)

(***************************************************************************)
(* Properties of the month strip (specification CalendarSpec)              *)
(***************************************************************************)
\* C30 as stated: at month offset n the active month key is the key of the
\* calendar month n months after the current one, on whatever day of the
\* month the component is mounted.
C30_AsStated ==
  app.def \in AppDefs => activeMonthKey = monthKey(Today + app.monthOffset)

(***************************************************************************)
(* Properties of the App with invocations in flight (SessionSpec)          *)
(***************************************************************************)
\* The saveState invocations that resolved and whose manualSave has resumed,
\* and the last of them (the Save button is disabled while one is under way,
\* so they complete in the order they were issued).
CompletedSaves ==
  {c \in CallIds : calls[c].op = "save" /\ calls[c].outcome = "resolved" /\ c \notin app.saveCalls}
LastCompletedSave == {c \in CompletedSaves : \A d \in CompletedSaves : d <= c}

\* C24 as stated: in the manual-save App, whenever the initial load has
\* finished, no save is in flight and hasUnsavedChanges is false, the
\* in-memory ledger is the one passed to the most recent saveState that
\* completed successfully.
C24_AsStated ==
  (app.def = "later" /\ app.loadedOnce /\ ~app.isSaving /\ ~app.hasUnsavedChanges)
    => \A c \in LastCompletedSave : app.state = calls[c].state

\* C28: isSaving is true exactly while a saveState invocation issued by
\* manualSave has not settled with manualSave resumed; the step in which
\* manualSave resumes finds the invocation settled and leaves isSaving
\* false, whether the invocation resolved or rejected, and leaves
\* hasUnsavedChanges as it was when it rejected.
C28_SavingFlag ==
  /\ [](app.def = "later" =>
         /\ app.isSaving <=> app.saveCalls # {}
         /\ \A c \in app.saveCalls : c \in CallIds /\ calls[c].op = "save")
  /\ [][\A c \in 1..MaxSessionCalls :
          (c \in app.saveCalls /\ c \notin app'.saveCalls)
          => /\ calls[c].pc = "done"
             /\ ~app'.isSaving
             /\ calls[c].outcome = "rejected"
                  => app'.hasUnsavedChanges = app.hasUnsavedChanges]_vars
\* A saveState issued by manualSave has rejected on the upsert: isSaving is
\* false again and hasUnsavedChanges still true.
C28_Witness ==
  /\ app.lastOp = "saveFailed" /\ ~app.isSaving /\ app.hasUnsavedChanges
  /\ \E c \in CallIds :
       /\ calls[c].op = "save" /\ calls[c].outcome = "rejected"
       /\ Logged(c, "upsertError")

\* C26 as stated: when the load effect resumes from a loadState issued
\* before the one whose result the ledger in memory was last replaced by
\* (a stale load: the credentials have changed since it was issued), it
\* leaves the ledger in memory as it is.
C26_AsStated ==
  [][\A c \in 1..MaxSessionCalls :
       (c \in app.loadCalls /\ c \notin app'.loadCalls /\ c < app.stateFrom)
       => app'.state = app.state]_vars

====
